---- MODULE Spec2Model ----
(***************************************************************************)
(* A model of the Kademlia DHT node of this repository: the bencoding      *)
(* codec (bencode_parser.cpp, bencode_encoder.cpp), the routing table,     *)
(* the peer store and the engine of dht_bootstrap.cpp (bootstrap and the   *)
(* serve loop).  Byte strings are sequences of numbers 0..255; positions   *)
(* in a byte string are 0-based as in the source.                          *)
(***************************************************************************)
EXTENDS Integers, Sequences, FiniteSets, TLC

(***************************************************************************)
(* Program constants (include/dht_bootstrap.hpp).                          *)
(***************************************************************************)
NODE_ID_SIZE == 20
K == 8

(* Size of a compact node record and of a compact peer record.             *)
NODE_RECORD_SIZE == 26
PEER_RECORD_SIZE == 6

(***************************************************************************)
(* Bytes.                                                                  *)
(***************************************************************************)
Byte == 0..255

Min(a, b) == IF a < b THEN a ELSE b

RECURSIVE XorBits(_, _, _)
XorBits(a, b, n) ==
    IF n = 0 THEN 0
    ELSE ((a + b) % 2) + 2 * XorBits(a \div 2, b \div 2, n - 1)

(* a ^ b on uint8_t, tabulated once.                                       *)
XorTable == [a \in Byte |-> [b \in Byte |-> XorBits(a, b, 8)]]

(* Lexicographic order of two byte sequences, bytes compared unsigned:     *)
(* std::array<uint8_t>::operator< and std::string::operator<.              *)
RECURSIVE LexLessFrom(_, _, _)
LexLessFrom(a, b, i) ==
    IF i > Len(b) THEN FALSE
    ELSE IF i > Len(a) THEN TRUE
    ELSE IF a[i] # b[i] THEN a[i] < b[i]
    ELSE LexLessFrom(a, b, i + 1)

LexLess(a, b) == LexLessFrom(a, b, 1)

(***************************************************************************)
(* ASCII codes used by the codec and by the KRPC messages.                 *)
(***************************************************************************)
CH_i == 105
CH_l == 108
CH_d == 100
CH_e == 101
CH_colon == 58
CH_minus == 45
CH_plus == 43
CH_0 == 48
CH_9 == 57

IsDigit(c) == c >= CH_0 /\ c <= CH_9
(* isspace in the "C" locale: space, \t, \n, \v, \f, \r.                    *)
IsSpace(c) == c = 32 \/ (c >= 9 /\ c <= 13)

(***************************************************************************)
(* BencodedValue: a tagged value (include/bencode_parser.hpp).  A          *)
(* dictionary is a std::map: a function from its keys to their values.     *)
(***************************************************************************)
BInt(n) == [i |-> n, tag |-> "int"]
BStr(s) == [tag |-> "str", s |-> s]
BList(l) == [tag |-> "list", l |-> l]
BDict(d) == [tag |-> "dict", d |-> d]

isInt(v) == v.tag = "int"
isString(v) == v.tag = "str"
isList(v) == v.tag = "list"
isDict(v) == v.tag = "dict"

EmptyDict == [k \in {} |-> BInt(0)]

(* result[key] = value on a std::map.                                      *)
DictPut(d, key, value) ==
    [k \in (DOMAIN d) \cup {key} |-> IF k = key THEN value ELSE d[k]]

(***************************************************************************)
(* std::to_string of a non-negative number, and of an int64_t.             *)
(***************************************************************************)
RECURSIVE NatToString(_)
NatToString(n) ==
    IF n < 10 THEN <<CH_0 + n>>
    ELSE Append(NatToString(n \div 10), CH_0 + (n % 10))

IntToString(n) == IF n < 0 THEN <<CH_minus>> \o NatToString(0 - n) ELSE NatToString(n)

(***************************************************************************)
(* BencodeEncoder.                                                         *)
(***************************************************************************)
(* encodeInt writing the magnitude of the value without its sign.          *)
encodeInt_Unsigned(n) == <<CH_i>> \o NatToString(IF n < 0 THEN 0 - n ELSE n) \o <<CH_e>>

encodeInt(n) == <<CH_i>> \o IntToString(n) \o <<CH_e>>

encodeString(s) == NatToString(Len(s)) \o <<CH_colon>> \o s

(* The greatest key instead of the least: the keys come out descending.    *)
MinKey_Greatest(keys) == CHOOSE k \in keys : \A o \in keys : o = k \/ LexLess(o, k)

(* The least key of a non-empty key set in std::map order.                 *)
MinKey(keys) == CHOOSE k \in keys : \A o \in keys : o = k \/ LexLess(k, o)

RECURSIVE encode(_)
RECURSIVE encodeItems(_)
RECURSIVE encodeDictFrom(_, _)

(* The loop of encodeList over the items still to be emitted.              *)
encodeItems(l) ==
    IF l = <<>> THEN <<>> ELSE encode(Head(l)) \o encodeItems(Tail(l))

encodeList(l) == <<CH_l>> \o encodeItems(l) \o <<CH_e>>

(* The loop of encodeDict over the keys still to be emitted.               *)
encodeDictFrom(d, keys) ==
    IF keys = {} THEN <<>>
    ELSE LET k == MinKey(keys)
         IN  encodeString(k) \o encode(d[k]) \o encodeDictFrom(d, keys \ {k})

encodeDict(d) == <<CH_d>> \o encodeDictFrom(d, DOMAIN d) \o <<CH_e>>

encode(v) ==
    IF isInt(v) THEN encodeInt(v.i)
    ELSE IF isString(v) THEN encodeString(v.s)
    ELSE IF isList(v) THEN encodeList(v.l)
    ELSE IF isDict(v) THEN encodeDict(v.d)
    ELSE <<>>

(***************************************************************************)
(* BencodeParser.  A parse step yields Parsed(v, pos), or Throw            *)
(* when the source throws a std::exception, or Diverge when the source     *)
(* never returns: a byte-string length may be negative, which moves the    *)
(* read position backwards, and a position met twice by the same loop or   *)
(* on the same call stack is met for ever.                                 *)
(***************************************************************************)
Throw == [ok |-> FALSE, diverges |-> FALSE]
Diverge == [ok |-> FALSE, diverges |-> TRUE]
Parsed(v, pos) == [v |-> v, ok |-> TRUE, diverges |-> FALSE, pos |-> pos]

NPOS == -1

(* data.find(c, pos): the first position >= pos holding c, or npos.        *)
RECURSIVE Find(_, _, _)
Find(data, c, pos) ==
    IF pos >= Len(data) THEN NPOS
    ELSE IF data[pos + 1] = c THEN pos
    ELSE Find(data, c, pos + 1)

(* data.substr(pos, n) with pos <= size.                                   *)
Substr(data, pos, n) == SubSeq(data, pos + 1, Min(pos + n, Len(data)))

RECURSIVE SkipSpaces(_, _)
SkipSpaces(s, i) == IF i <= Len(s) /\ IsSpace(s[i]) THEN SkipSpaces(s, i + 1) ELSE i

RECURSIVE DigitsEnd(_, _)
DigitsEnd(s, i) == IF i <= Len(s) /\ IsDigit(s[i]) THEN DigitsEnd(s, i + 1) ELSE i

RECURSIVE SkipZeros(_, _, _)
SkipZeros(s, i, e) == IF i < e - 1 /\ s[i] = CH_0 THEN SkipZeros(s, i + 1, e) ELSE i

RECURSIVE DigitsValue(_, _, _, _)
DigitsValue(s, i, e, acc) ==
    IF i >= e THEN acc ELSE DigitsValue(s, i + 1, e, 10 * acc + (s[i] - CH_0))

(* The decimal digits of INT64_MAX and of -INT64_MIN.                      *)
INT64_MAX_DIGITS == <<57,50,50,51,51,55,50,48,51,54,56,53,52,55,55,53,56,48,55>>
INT64_MIN_DIGITS == <<57,50,50,51,51,55,50,48,51,54,56,53,52,55,55,53,56,48,56>>

(* std::stoll(s): leading white space, an optional sign, then the longest  *)
(* run of decimal digits; what follows the digits is ignored.  It throws   *)
(* when there is no digit and when the number does not fit an int64_t.     *)
stoll(s) ==
    LET i == SkipSpaces(s, 1)
        signed == i <= Len(s) /\ (s[i] = CH_minus \/ s[i] = CH_plus)
        neg == signed /\ s[i] = CH_minus
        j == IF signed THEN i + 1 ELSE i
        e == DigitsEnd(s, j)
        z == SkipZeros(s, j, e)
        sig == SubSeq(s, z, e - 1)
        lim == IF neg THEN INT64_MIN_DIGITS ELSE INT64_MAX_DIGITS
    IN  IF e = j THEN [ok |-> FALSE]
        ELSE IF Len(sig) > Len(lim) \/ (Len(sig) = Len(lim) /\ LexLess(lim, sig))
             THEN [ok |-> FALSE]
        ELSE [v |-> IF neg THEN 0 - DigitsValue(s, z, e, 0) ELSE DigitsValue(s, z, e, 0),
              ok |-> TRUE]

parseInt(data, pos) ==
    LET p == pos + 1
        endPos == Find(data, CH_e, p)
        n == stoll(Substr(data, p, endPos - p))
    IN  IF endPos = NPOS THEN Throw
        ELSE IF ~n.ok THEN Throw
        ELSE Parsed(n.v, endPos + 1)

(* parseString without the check of the length against the input.        *)
parseString_Unchecked(data, pos) ==
    LET colonPos == Find(data, CH_colon, pos)
        n == stoll(Substr(data, pos, colonPos - pos))
        p == colonPos + 1
    IN  IF colonPos = NPOS THEN Throw
        ELSE IF ~n.ok THEN Throw
        ELSE Parsed(Substr(data, p, n.v), p + n.v)

(* pos + length is computed in size_t: a negative length -n passes the     *)
(* bound check when n <= pos; substr then takes the rest of the input and  *)
(* pos += length moves the position back.                                  *)
parseString(data, pos) ==
    LET colonPos == Find(data, CH_colon, pos)
        n == stoll(Substr(data, pos, colonPos - pos))
        p == colonPos + 1
    IN  IF colonPos = NPOS THEN Throw
        ELSE IF ~n.ok THEN Throw
        ELSE IF n.v >= 0
             THEN IF p + n.v > Len(data) THEN Throw
                  ELSE Parsed(Substr(data, p, n.v), p + n.v)
        ELSE IF p + n.v < 0 THEN Throw
        ELSE Parsed(Substr(data, p, Len(data)), p + n.v)

RECURSIVE parseValue(_, _, _)
RECURSIVE parseListLoop(_, _, _, _, _)
RECURSIVE parseDictLoop(_, _, _, _, _)

(* The loop of parseList and what follows it; iter counts its iterations.  *)
parseListLoop(data, pos, result, depth, iter) ==
    IF pos < Len(data) /\ data[pos + 1] # CH_e
    THEN IF iter > Len(data) THEN Diverge
         ELSE LET r == parseValue(data, pos, depth + 1)
              IN  IF ~r.ok THEN r
                  ELSE parseListLoop(data, r.pos, Append(result, r.v), depth, iter + 1)
    ELSE IF pos >= Len(data) \/ data[pos + 1] # CH_e THEN Throw
    ELSE Parsed(BList(result), pos + 1)

parseList(data, pos, depth) == parseListLoop(data, pos + 1, <<>>, depth, 0)

(* The loop of parseDict and what follows it.                              *)
parseDictLoop(data, pos, result, depth, iter) ==
    IF pos < Len(data) /\ data[pos + 1] # CH_e
    THEN IF iter > Len(data) THEN Diverge
         ELSE LET key == parseString(data, pos)
              IN  IF ~key.ok THEN key
                  ELSE LET value == parseValue(data, key.pos, depth + 1)
                       IN  IF ~value.ok THEN value
                           ELSE parseDictLoop(data, value.pos,
                                              DictPut(result, key.v, value.v),
                                              depth, iter + 1)
    ELSE IF pos >= Len(data) \/ data[pos + 1] # CH_e THEN Throw
    ELSE Parsed(BDict(result), pos + 1)

parseDict(data, pos, depth) == parseDictLoop(data, pos + 1, EmptyDict, depth, 0)

parseValue(data, pos, depth) ==
    IF depth > Len(data) + 1 THEN Diverge
    ELSE IF pos >= Len(data) THEN Throw
    ELSE LET ch == data[pos + 1]
         IN  IF ch = CH_i
             THEN LET r == parseInt(data, pos)
                  IN  IF r.ok THEN Parsed(BInt(r.v), r.pos) ELSE r
             ELSE IF ch = CH_l THEN parseList(data, pos, depth)
             ELSE IF ch = CH_d THEN parseDict(data, pos, depth)
             ELSE IF IsDigit(ch)
             THEN LET r == parseString(data, pos)
                  IN  IF r.ok THEN Parsed(BStr(r.v), r.pos) ELSE r
             ELSE Throw

parse(data) == parseValue(data, 0, 0)

(***************************************************************************)
(* Node IDs, addresses and their wire forms.                               *)
(***************************************************************************)

(* xor_distance: byte-wise XOR of two NodeIDs.                             *)
xor_distance(a, b) == [i \in 1..NODE_ID_SIZE |-> XorTable[a[i]][b[i]]]

CH_dot == 46

(* inet_ntop / inet_ntoa: four address bytes to dotted-decimal text.       *)
inet_ntop(b) ==
    NatToString(b[1]) \o <<CH_dot>> \o NatToString(b[2]) \o <<CH_dot>>
        \o NatToString(b[3]) \o <<CH_dot>> \o NatToString(b[4])

(* One decimal octet of dotted-decimal text starting at 1-based index i:   *)
(* one to three digits, no leading zero, at most 255.                      *)
OctetAt(text, i) ==
    LET e == DigitsEnd(text, i)
        n == DigitsValue(text, i, e, 0)
    IN  IF e = i \/ e - i > 3 THEN [ok |-> FALSE]
        ELSE IF e - i > 1 /\ text[i] = CH_0 THEN [ok |-> FALSE]
        ELSE IF n > 255 THEN [ok |-> FALSE]
        ELSE [v |-> n, ok |-> TRUE, next |-> e]

RECURSIVE PtonFrom(_, _, _)
PtonFrom(text, i, acc) ==
    LET o == OctetAt(text, i)
    IN  IF ~o.ok THEN [ok |-> FALSE]
        ELSE IF Len(acc) = 3
             THEN IF o.next = Len(text) + 1
                  THEN [ok |-> TRUE, bytes |-> Append(acc, o.v)]
                  ELSE [ok |-> FALSE]
        ELSE IF o.next <= Len(text) /\ text[o.next] = CH_dot
             THEN PtonFrom(text, o.next + 1, Append(acc, o.v))
        ELSE [ok |-> FALSE]

(* inet_pton(AF_INET, text): the four address bytes, or failure.           *)
inet_pton(text) == PtonFrom(text, 1, <<>>)

(* htons(port) as the two bytes put on the wire, and ntohs of two bytes.   *)
htons(port) == <<port \div 256, port % 256>>
ntohs(b) == b[1] * 256 + b[2]

(* Struct Node.  Record fields are written, here and below, in the order  *)
(* in which TLC keeps them.                                                *)
MkNode(id, ip, port) == [port |-> port, id |-> id, ip |-> ip]

(* The for loop of parse_compact_nodes from entry i on, nodes being the    *)
(* vector so far: each entry is 20 + 4 + 2 bytes.                          *)
RECURSIVE CompactNodesFrom(_, _, _)
CompactNodesFrom(compact, i, nodes) ==
    IF i >= Len(compact) \div NODE_RECORD_SIZE THEN nodes
    ELSE LET o == i * NODE_RECORD_SIZE
         IN  CompactNodesFrom(compact, i + 1,
                 Append(nodes,
                        MkNode(SubSeq(compact, o + 1, o + NODE_ID_SIZE),
                               inet_ntop(SubSeq(compact, o + NODE_ID_SIZE + 1,
                                                o + NODE_ID_SIZE + 4)),
                               ntohs(SubSeq(compact, o + NODE_ID_SIZE + 5,
                                            o + NODE_RECORD_SIZE)))))

(* parse_compact_nodes: floor(size / 26) records.                          *)
parse_compact_nodes(compact) == CompactNodesFrom(compact, 0, <<>>)

(* The four bytes inet_pton leaves in ip_binary.  The address text of a    *)
(* stored node always comes from inet_ntop or inet_ntoa, so it converts.   *)
IpBinary(text) == inet_pton(text).bytes

RECURSIVE encode_nodes(_)
encode_nodes(nodes) ==
    IF nodes = <<>> THEN <<>>
    ELSE Head(nodes).id \o IpBinary(Head(nodes).ip) \o htons(Head(nodes).port)
             \o encode_nodes(Tail(nodes))

RECURSIVE encode_peers(_)
encode_peers(peers) ==
    IF peers = <<>> THEN <<>>
    ELSE IpBinary(Head(peers).ip) \o htons(Head(peers).port) \o encode_peers(Tail(peers))

(***************************************************************************)
(* KRPC keys and words.                                                    *)
(***************************************************************************)
S_t == <<116>>
S_y == <<121>>
S_q == <<113>>
S_r == <<114>>
S_e == <<101>>
S_a == <<97>>
S_id == <<105, 100>>
S_aa == <<97, 97>>
S_pp == <<112, 112>>
S_nodes == <<110, 111, 100, 101, 115>>
S_values == <<118, 97, 108, 117, 101, 115>>
S_target == <<116, 97, 114, 103, 101, 116>>
S_info_hash == <<105, 110, 102, 111, 95, 104, 97, 115, 104>>
S_ping == <<112, 105, 110, 103>>
S_find_node == <<102, 105, 110, 100, 95, 110, 111, 100, 101>>
S_get_peers == <<103, 101, 116, 95, 112, 101, 101, 114, 115>>
S_announce_peer == <<97, 110, 110, 111, 117, 110, 99, 101, 95, 112, 101, 101, 114>>

(* A std::map built from a sequence of <<key, value>> pairs.               *)
RECURSIVE DictOf(_)
DictOf(pairs) ==
    IF pairs = <<>> THEN EmptyDict
    ELSE DictPut(DictOf(SubSeq(pairs, 1, Len(pairs) - 1)),
                 pairs[Len(pairs)][1], pairs[Len(pairs)][2])

(* v.asDict().at(key): Throw-like failure is reported by HasStr/HasDict.   *)
HasKey(v, key) == isDict(v) /\ key \in DOMAIN v.d
HasStr(v, key) == HasKey(v, key) /\ isString(v.d[key])
HasDict(v, key) == HasKey(v, key) /\ isDict(v.d[key])

(***************************************************************************)
(* The engine: class DHTBootstrap.                                         *)
(*                                                                         *)
(*   my_node_id_, routing_table_, bootstrap_nodes_, peer_store_  members   *)
(*   pc        where the single thread of the host program is: "init"      *)
(*             (constructed), "bootstrap" (inside bootstrap()), "done"     *)
(*             (bootstrap() returned), "run" (run() at recvfrom),          *)
(*             "handled" (run() at the end of a loop iteration), "hung"    *)
(*             (inside a call that never returns: it loops for ever or     *)
(*             recurses until the stack is exhausted)                      *)
(*   seed_idx  bootstrap(): 1-based index of the next seed to contact      *)
(*   nodes     bootstrap(): the nodes of the current reply still to insert *)
(*   recv      run(): buffer, sender_addr and parsed message of the        *)
(*             datagram being handled                                      *)
(*   sent      the datagrams handed to sendto on sock_ while that datagram *)
(*             was handled, in order                                       *)
(*   caught    run(): whether handling that datagram ended in a catch     *)
(*             block                                                       *)
(*   acked     history: infohash and source address of every announce_peer *)
(*             that has been answered                                      *)
(*   closest   arguments and return value of the last direct call of       *)
(*             find_closest_nodes                                          *)
(*   rpc       the last outbound RPC (send_find_node_request or ping):     *)
(*             the node called, what its socket calls yielded, whether it  *)
(*             returned, what it returned, and the number of outbound      *)
(*             sockets open when it was called                             *)
(*   open_sockets  the number of open sockets created by outbound RPCs     *)
(*   sock_     the listening socket the constructor bound                  *)
(*   codec     the direct calls of BencodeEncoder::encode,                 *)
(*             BencodeParser::parse and TorrentFileParser::parse made so   *)
(*             far                                                         *)
(***************************************************************************)
VARIABLES my_node_id_, routing_table_, bootstrap_nodes_, peer_store_,
          pc, seed_idx, nodes, recv, sent, caught, acked, closest,
          rpc, open_sockets, sock_, codec

vars == <<my_node_id_, routing_table_, bootstrap_nodes_, peer_store_,
          pc, seed_idx, nodes, recv, sent, caught, acked, closest,
          rpc, open_sockets, sock_, codec>>

(* char buffer[1024] of run(), send_find_node_request() and ping().        *)
BUFFER_SIZE == 1024

(***************************************************************************)
(* What a blocking socket call sequence can return to an outbound RPC:     *)
(* socket() fails, sendto() fails, recvfrom() fails (the 2 s deadline      *)
(* passes), or recvfrom() delivers a datagram, possibly of 0 bytes.        *)
(***************************************************************************)
NoSocket == [kind |-> "nosocket"]
SendFail == [kind |-> "sendfail"]
RecvFail == [kind |-> "recvfail"]
Datagram(data) == [data |-> data, kind |-> "datagram"]

(* The bytes recvfrom leaves in a buffer of BUFFER_SIZE bytes.             *)
Received(data) == SubSeq(data, 1, Min(Len(data), BUFFER_SIZE))

(***************************************************************************)
(* Routing table.                                                          *)
(***************************************************************************)

(* distance[i / 8] & (1 << (i % 8)) for a bit index inside the array.      *)
DistanceBit(distance, i) == (distance[(i \div 8) + 1] \div (2 ^ (i % 8))) % 2 = 1

RECURSIVE ScanBits(_, _, _)
ScanBits(distance, i, limit) ==
    IF i < limit /\ DistanceBit(distance, i) THEN ScanBits(distance, i + 1, limit) ELSE i

(* The values bucket_index can have after the while loop of                *)
(* add_to_routing_table.  Once the index reaches 8 * NODE_ID_SIZE with     *)
(* more buckets than that, the loop reads past the end of the array: the   *)
(* bytes found there are arbitrary, so the loop may stop at any index up   *)
(* to the number of buckets.                                               *)
BucketIndexes(distance, size) ==
    LET i == ScanBits(distance, 0, Min(size, 8 * NODE_ID_SIZE))
    IN  IF i < size /\ i = 8 * NODE_ID_SIZE THEN i..size ELSE {i}

(* std::find(bucket.begin(), bucket.end(), node): 1-based index of the     *)
(* first equal entry, 0 for end().                                         *)
FindInBucket(bucket, node) ==
    IF \E i \in 1..Len(bucket) : bucket[i] = node
    THEN CHOOSE i \in 1..Len(bucket) :
             bucket[i] = node /\ \A j \in 1..(i - 1) : bucket[j] # node
    ELSE 0

(* std::rotate(it, it + 1, bucket.end()): the entry at it moves to the end. *)
RotateToBack(bucket, it) ==
    SubSeq(bucket, 1, it - 1) \o SubSeq(bucket, it + 1, Len(bucket)) \o <<bucket[it]>>

(* ping(node): true iff recvfrom returned more than 0 bytes.               *)
ping(node, rx) == rx.kind = "datagram" /\ Len(Received(rx.data)) > 0

(* InsertIntoBucket with the eviction forgotten: a new node is appended    *)
(* to a full bucket whose head does not answer.                            *)
InsertIntoBucket_AppendWhenFull(bucket, node, rx) ==
    LET it == FindInBucket(bucket, node)
    IN  IF it # 0 THEN RotateToBack(bucket, it)
        ELSE IF Len(bucket) < K THEN Append(bucket, node)
        ELSE IF ping(bucket[1], rx) THEN RotateToBack(bucket, 1)
        ELSE Append(bucket, node)

(* InsertIntoBucket with the answer of the ping ignored: the head of a     *)
(* full bucket is replaced whether or not it answers.                      *)
InsertIntoBucket_EvictAlways(bucket, node, rx) ==
    LET it == FindInBucket(bucket, node)
    IN  IF it # 0 THEN RotateToBack(bucket, it)
        ELSE IF Len(bucket) < K THEN Append(bucket, node)
        ELSE [bucket EXCEPT ![1] = node]

(* InsertIntoBucket with the eviction left out: the head of a full bucket  *)
(* moves to the back whether or not it answers, and the new node is        *)
(* dropped.                                                                *)
InsertIntoBucket_NeverEvict(bucket, node, rx) ==
    LET it == FindInBucket(bucket, node)
    IN  IF it # 0 THEN RotateToBack(bucket, it)
        ELSE IF Len(bucket) < K THEN Append(bucket, node)
        ELSE RotateToBack(bucket, 1)

(* InsertIntoBucket without the search for the node: a node is appended    *)
(* to a bucket with room whether or not the bucket holds it.               *)
InsertIntoBucket_NoFind(bucket, node, rx) ==
    IF Len(bucket) < K THEN Append(bucket, node)
    ELSE IF ping(bucket[1], rx) THEN RotateToBack(bucket, 1)
    ELSE [bucket EXCEPT ![1] = node]

(* The bucket after the body of add_to_routing_table that follows the      *)
(* choice of the bucket.                                                   *)
InsertIntoBucket(bucket, node, rx) ==
    LET it == FindInBucket(bucket, node)
    IN  IF it # 0 THEN RotateToBack(bucket, it)
        ELSE IF Len(bucket) < K THEN Append(bucket, node)
        ELSE IF ping(bucket[1], rx) THEN RotateToBack(bucket, 1)
        ELSE [bucket EXCEPT ![1] = node]

(* The routing table after add_to_routing_table(node), when the scan       *)
(* stopped at bucket_index and the eviction ping (if any) saw rx.          *)
add_to_routing_table(table, node, bucket_index, rx) ==
    LET grown == IF bucket_index >= Len(table) THEN Append(table, <<>>) ELSE table
    IN  [grown EXCEPT ![bucket_index + 1] = InsertIntoBucket(@, node, rx)]

(***************************************************************************)
(* find_closest_nodes.                                                     *)
(***************************************************************************)

(* The first loop: every node of every bucket, in table order.             *)
RECURSIVE GatherNodes(_)
GatherNodes(table) ==
    IF table = <<>> THEN <<>> ELSE Head(table) \o GatherNodes(Tail(table))

(* Each gathered node with its distance to the target.                     *)
RECURSIVE WithDistance(_, _)
WithDistance(list, target_id) ==
    IF list = <<>> THEN <<>>
    ELSE <<[node |-> Head(list), dist |-> xor_distance(Head(list).id, target_id)]>>
             \o WithDistance(Tail(list), target_id)

(* std::sort with the comparator distance(a) < distance(b): every order    *)
(* of the entries at the positions idxs in which no entry precedes one     *)
(* that is strictly closer.  Entries at equal distance may end in any      *)
(* order: the sort is not stable.                                          *)
RECURSIVE SortOutcomes(_, _)
SortOutcomes(entries, idxs) ==
    IF idxs = {} THEN {<<>>}
    ELSE LET firsts == {i \in idxs :
                           \A j \in idxs : ~LexLess(entries[j].dist, entries[i].dist)}
         IN  UNION { { <<entries[i].node>> \o rest :
                           rest \in SortOutcomes(entries, idxs \ {i}) } : i \in firsts }

(* closest_nodes.resize(k) when there are more than k.                     *)
Truncate(list, k) == IF Len(list) > k THEN SubSeq(list, 1, k) ELSE list

(* find_closest_nodes with the sort left out.                              *)
find_closest_nodes_Unsorted(table, target_id, k) ==
    { Truncate(GatherNodes(table), k) }

(* The lists find_closest_nodes(target_id, k) can return.                  *)
find_closest_nodes(table, target_id, k) ==
    LET entries == WithDistance(GatherNodes(table), target_id)
    IN  { Truncate(sorted, k) : sorted \in SortOutcomes(entries, DOMAIN entries) }

(***************************************************************************)
(* send_find_node_request: the node list returned when the socket calls    *)
(* yield rx.  Returns [hung |-> TRUE] when the parser never returns.       *)
(***************************************************************************)
FindNodeResult(rx) ==
    IF rx.kind # "datagram" THEN [nodes |-> <<>>, hung |-> FALSE]
    ELSE IF Len(Received(rx.data)) = 0 THEN [nodes |-> <<>>, hung |-> FALSE]
    ELSE LET r == parse(Received(rx.data))
         IN  IF ~r.ok THEN [nodes |-> <<>>, hung |-> r.diverges]
             ELSE IF ~HasStr(r.v, S_y) THEN [nodes |-> <<>>, hung |-> FALSE]
             ELSE IF r.v.d[S_y].s # S_r THEN [nodes |-> <<>>, hung |-> FALSE]
             ELSE IF ~HasDict(r.v, S_r) THEN [nodes |-> <<>>, hung |-> FALSE]
             ELSE IF ~HasStr(r.v.d[S_r], S_nodes) THEN [nodes |-> <<>>, hung |-> FALSE]
             ELSE [nodes |-> parse_compact_nodes(r.v.d[S_r].d[S_nodes].s),
                   hung |-> FALSE]

(***************************************************************************)
(* Sockets of the outbound RPCs.  The socket() and CLOSESOCKET calls made  *)
(* on the path the call takes, in order; a call that never returns makes   *)
(* no CLOSESOCKET call.                                                    *)
(***************************************************************************)

(* send_find_node_request with the CLOSESOCKET before the return on a      *)
(* failed sendto left out.                                                 *)
FindNodeSocketCalls_LeakOnSendFail(rx, hung) ==
    IF rx.kind = "nosocket" THEN <<>>
    ELSE IF rx.kind = "sendfail" THEN <<"socket">>
    ELSE IF hung THEN <<"socket">>
    ELSE <<"socket", "close">>

FindNodeSocketCalls(rx, hung) ==
    IF rx.kind = "nosocket" THEN <<>>
    ELSE IF rx.kind = "sendfail" THEN <<"socket", "close">>
    ELSE IF hung THEN <<"socket">>
    ELSE <<"socket", "close">>

(* ping: no call at all when add_to_routing_table does not ping.           *)
PingSocketCalls(rx) ==
    IF rx.kind \in {"noping", "nosocket"} THEN <<>> ELSE <<"socket", "close">>

(* The number of open outbound sockets after the calls.                    *)
RECURSIVE SocketsAfter(_, _)
SocketsAfter(open, calls) ==
    IF calls = <<>> THEN open
    ELSE SocketsAfter(IF Head(calls) = "socket" THEN open + 1 ELSE open - 1, Tail(calls))

(***************************************************************************)
(* The serve loop: run() and the four query handlers.  A handler yields    *)
(* the datagrams it hands to sendto, in order (`sent`), and the peer store *)
(* it leaves (`store`), and whether an exception was caught (`threw`).     *)
(* sender is sender_addr: sin_addr as four bytes and sin_port as two bytes *)
(* in network order.                                                       *)
(***************************************************************************)

(* The handler reached its catch block (or run() its own): nothing sent.   *)
Caught(store) == { [sent |-> <<>>, store |-> store, threw |-> TRUE] }

(* run() found no branch for the message: nothing called, nothing thrown.  *)
Ignored(store) == { [sent |-> <<>>, store |-> store, threw |-> FALSE] }

(* inet_ntoa(sender_addr.sin_addr): the same dotted-decimal text.          *)
inet_ntoa(b) == inet_ntop(b)

(* A datagram handed to sendto(sock_, ..., &sender_addr).                  *)
SendTo(data, sender) == [data |-> data, port |-> sender.port, ip |-> sender.ip]

(* Response with a transaction ID of the engine's own instead of the       *)
(* query's.                                                                *)
Response_OwnTid(transaction_id, r) ==
    encode(BDict(DictOf(<< <<S_t, BStr(S_aa)>>,
                           <<S_y, BStr(S_r)>>,
                           <<S_r, BDict(r)>> >>)))

(* The response dictionary {t, y: "r", r: r} of every handler, encoded.    *)
Response(transaction_id, r) ==
    encode(BDict(DictOf(<< <<S_t, BStr(transaction_id)>>,
                           <<S_y, BStr(S_r)>>,
                           <<S_r, BDict(r)>> >>)))

(* std::string(my_node_id_.data(), 20) under the key "id".                 *)
IdEntry(my_id) == <<S_id, BStr(my_id)>>

(* Bytes that may lie behind the storage of a short std::string.           *)
OverreadPads == { [i \in 1..NODE_ID_SIZE |-> 0], [i \in 1..NODE_ID_SIZE |-> 255] }

(* std::memcpy(target_id.data(), str.data(), NODE_ID_SIZE): the first 20   *)
(* bytes of the string; a shorter string is followed by its terminating 0  *)
(* and then by whatever lies behind it.                                    *)
MemcpyId(str) ==
    IF Len(str) >= NODE_ID_SIZE THEN { SubSeq(str, 1, NODE_ID_SIZE) }
    ELSE { [i \in 1..NODE_ID_SIZE |->
               IF i <= Len(str) THEN str[i] ELSE IF i = Len(str) + 1 THEN 0 ELSE pad[i]] :
           pad \in OverreadPads }

(* handle_ping that builds the response and never sends it.                *)
handle_ping_Silent(request, sender, my_id, store) ==
    IF ~HasStr(request, S_t) THEN Caught(store)
    ELSE { [sent |-> <<>>, store |-> store, threw |-> FALSE] }

(* handle_ping: the response carries the "t" of the request and the local  *)
(* ID, and goes to the sender with one sendto.                             *)
handle_ping(request, sender, my_id, store) ==
    IF ~HasStr(request, S_t) THEN Caught(store)
    ELSE { [sent |-> << SendTo(Response(request.d[S_t].s, DictOf(<< IdEntry(my_id) >>)),
                               sender) >>,
            store |-> store, threw |-> FALSE] }

(* handle_find_node answering with the first K table entries in bucket     *)
(* order.                                                                  *)
handle_find_node_TableOrder(request, sender, my_id, table, store) ==
    IF ~HasStr(request, S_t) THEN Caught(store)
    ELSE IF ~HasDict(request, S_a) THEN Caught(store)
    ELSE IF ~HasStr(request.d[S_a], S_target) THEN Caught(store)
    ELSE { [sent |-> << SendTo(Response(request.d[S_t].s,
                           DictOf(<< IdEntry(my_id),
                                     <<S_nodes,
                                       BStr(encode_nodes(Truncate(GatherNodes(table), K)))>> >>)),
                           sender) >>,
            store |-> store, threw |-> FALSE] }

handle_find_node(request, sender, my_id, table, store) ==
    IF ~HasStr(request, S_t) THEN Caught(store)
    ELSE IF ~HasDict(request, S_a) THEN Caught(store)
    ELSE IF ~HasStr(request.d[S_a], S_target) THEN Caught(store)
    ELSE { [sent |-> << SendTo(Response(request.d[S_t].s,
                                        DictOf(<< IdEntry(my_id),
                                                  <<S_nodes, BStr(encode_nodes(closest_nodes))>> >>)),
                               sender) >>,
            store |-> store, threw |-> FALSE] :
           closest_nodes \in UNION { find_closest_nodes(table, target_id, K) :
                                       target_id \in MemcpyId(request.d[S_a].d[S_target].s) } }

(* handle_get_peers that never looks into the peer store.                  *)
handle_get_peers_NodesOnly(request, sender, my_id, table, store) ==
    IF ~HasStr(request, S_t) THEN Caught(store)
    ELSE IF ~HasDict(request, S_a) THEN Caught(store)
    ELSE IF ~HasStr(request.d[S_a], S_info_hash) THEN Caught(store)
    ELSE { [sent |-> << SendTo(Response(request.d[S_t].s,
                           DictOf(<< IdEntry(my_id),
                                     <<S_nodes, BStr(encode_nodes(closest_nodes))>> >>)),
                           sender) >>,
            store |-> store, threw |-> FALSE] :
           closest_nodes \in UNION { find_closest_nodes(table, target_id, K) :
                                       target_id \in MemcpyId(request.d[S_a].d[S_info_hash].s) } }

handle_get_peers(request, sender, my_id, table, store) ==
    IF ~HasStr(request, S_t) THEN Caught(store)
    ELSE IF ~HasDict(request, S_a) THEN Caught(store)
    ELSE IF ~HasStr(request.d[S_a], S_info_hash) THEN Caught(store)
    ELSE LET infohash == request.d[S_a].d[S_info_hash].s
         IN  IF infohash \in DOMAIN store
             THEN { [sent |-> << SendTo(Response(request.d[S_t].s,
                                   DictOf(<< IdEntry(my_id),
                                             <<S_values, BStr(encode_peers(store[infohash]))>> >>)),
                                   sender) >>,
                     store |-> store, threw |-> FALSE] }
             ELSE { [sent |-> << SendTo(Response(request.d[S_t].s,
                                   DictOf(<< IdEntry(my_id),
                                             <<S_nodes, BStr(encode_nodes(closest_nodes))>> >>)),
                                   sender) >>,
                     store |-> store, threw |-> FALSE] :
                    closest_nodes \in UNION { find_closest_nodes(table, target_id, K) :
                                                target_id \in MemcpyId(infohash) } }

(* Values the never-assigned field peer.id of handle_announce_peer can     *)
(* hold.                                                                   *)
UninitializedIds == { [i \in 1..NODE_ID_SIZE |-> 0], [i \in 1..NODE_ID_SIZE |-> 204] }

(* StorePush that replaces the list of the infohash by the new peer.       *)
StorePush_Overwrite(store, infohash, peer) ==
    [h \in (DOMAIN store) \cup {infohash} |-> IF h = infohash THEN <<peer>> ELSE store[h]]

(* StorePush that skips an endpoint the list already holds.                *)
StorePush_Dedup(store, infohash, peer) ==
    [h \in (DOMAIN store) \cup {infohash} |->
        IF h = infohash
        THEN (IF h \notin DOMAIN store THEN <<peer>>
              ELSE IF \E i \in 1..Len(store[h]) :
                          store[h][i].ip = peer.ip /\ store[h][i].port = peer.port
                   THEN store[h]
                   ELSE Append(store[h], peer))
        ELSE store[h]]

(* peer_store_[infohash].push_back(peer).                                  *)
StorePush(store, infohash, peer) ==
    [h \in (DOMAIN store) \cup {infohash} |->
        IF h = infohash
        THEN (IF h \in DOMAIN store THEN Append(store[h], peer) ELSE <<peer>>)
        ELSE store[h]]

(* The peer is stored first; string_to_node_id (for the log line) throws   *)
(* when the infohash is not 20 bytes long, and so does the read of "t"     *)
(* when it is missing or no string: both leave the stored peer and send    *)
(* nothing.                                                                *)
handle_announce_peer(request, sender, my_id, store) ==
    IF ~HasDict(request, S_a) THEN Caught(store)
    ELSE IF ~HasStr(request.d[S_a], S_info_hash) THEN Caught(store)
    ELSE LET infohash == request.d[S_a].d[S_info_hash].s
         IN  { [sent |-> IF Len(infohash) # NODE_ID_SIZE THEN <<>>
                         ELSE IF ~HasStr(request, S_t) THEN <<>>
                         ELSE << SendTo(Response(request.d[S_t].s,
                                                 DictOf(<< IdEntry(my_id) >>)),
                                        sender) >>,
                store |-> StorePush(store, infohash,
                                    MkNode(garbage, inet_ntoa(sender.ip), ntohs(sender.port))),
                threw |-> Len(infohash) # NODE_ID_SIZE \/ ~HasStr(request, S_t)] :
               garbage \in UninitializedIds }

(* Dispatch that answers every message that is no known query the way it  *)
(* answers a ping.                                                         *)
Dispatch_AnswerAll(msg, sender, my_id, table, store) ==
    IF ~msg.ok THEN Caught(store)
    ELSE IF ~HasStr(msg.v, S_y) THEN Caught(store)
    ELSE IF msg.v.d[S_y].s # S_q THEN handle_ping(msg.v, sender, my_id, store)
    ELSE IF ~HasStr(msg.v, S_q) THEN Caught(store)
    ELSE LET query_type == msg.v.d[S_q].s
         IN  IF query_type = S_find_node
                  THEN handle_find_node(msg.v, sender, my_id, table, store)
             ELSE IF query_type = S_get_peers
                  THEN handle_get_peers(msg.v, sender, my_id, table, store)
             ELSE IF query_type = S_announce_peer
                  THEN handle_announce_peer(msg.v, sender, my_id, store)
             ELSE handle_ping(msg.v, sender, my_id, store)

(* The try block of run() on a parsed message: the dispatch on "y" and     *)
(* "q".  msg is the outcome of parser.parse on the received bytes.         *)
Dispatch(msg, sender, my_id, table, store) ==
    IF ~msg.ok THEN Caught(store)
    ELSE IF ~HasStr(msg.v, S_y) THEN Caught(store)
    ELSE IF msg.v.d[S_y].s # S_q THEN Ignored(store)
    ELSE IF ~HasStr(msg.v, S_q) THEN Caught(store)
    ELSE LET query_type == msg.v.d[S_q].s
         IN  IF query_type = S_ping THEN handle_ping(msg.v, sender, my_id, store)
             ELSE IF query_type = S_find_node
                  THEN handle_find_node(msg.v, sender, my_id, table, store)
             ELSE IF query_type = S_get_peers
                  THEN handle_get_peers(msg.v, sender, my_id, table, store)
             ELSE IF query_type = S_announce_peer
                  THEN handle_announce_peer(msg.v, sender, my_id, store)
             ELSE Ignored(store)

(***************************************************************************)
(* Inputs.  A NodeID is written by its first and last byte; the bytes in   *)
(* between are 0.                                                          *)
(***************************************************************************)
MkId(first, last) ==
    [i \in 1..NODE_ID_SIZE |-> IF i = 1 THEN first ELSE IF i = NODE_ID_SIZE THEN last ELSE 0]

(* The node with ID MkId(first, 0) at 10.0.0.first, on the given port.     *)
Nd(first, port) == MkNode(MkId(first, 0), inet_ntop(<<10, 0, 0, first>>), port)

(* Local node IDs the engine is constructed with.                          *)
MyIds == {MkId(0, 0), MkId(1, 0)}

(* Outcomes of generate_random_node_id for a seed.                         *)
RandomIds == {MkId(170, 85), MkId(2, 0)}

(* Seed endpoints the host configures.                                     *)
SeedAddrs == {[port |-> 6881, ip |-> inet_ntop(<<10, 0, 0, 99>>)]}

(* Upper bound on the number of seeds the host adds.                       *)
MaxSeeds == 2

(* A well-formed find_node reply carrying the compact form of a node list. *)
FindNodeReply(list) ==
    encode(BDict(DictOf(<<
        <<S_t, BStr(S_aa)>>,
        <<S_y, BStr(S_r)>>,
        <<S_r, BDict(DictOf(<< <<S_id, BStr(MkId(170, 85))>>,
                               <<S_nodes, BStr(encode_nodes(list))>> >>))>> >>)))

(* A KRPC error message, and a ping answer.                                *)
ErrorReply(tid) ==
    encode(BDict(DictOf(<<
        <<S_t, BStr(tid)>>,
        <<S_y, BStr(S_e)>>,
        <<S_e, BList(<<BInt(201), BStr(<<69, 114, 114>>)>>)>> >>)))

PongReply(tid) ==
    encode(BDict(DictOf(<<
        <<S_t, BStr(tid)>>,
        <<S_y, BStr(S_r)>>,
        <<S_r, BDict(DictOf(<< <<S_id, BStr(MkId(170, 85))>> >>))>> >>)))

(* The nodes remote peers tell the engine about during bootstrap: nine     *)
(* nodes with even first ID bytes, one whose first byte is 3, and one that *)
(* shares the ID and address of the second but not its port.               *)
BootCatalogue ==
    << Nd(2, 6881), Nd(4, 6881), Nd(6, 6881), Nd(8, 6881), Nd(10, 6881),
       Nd(12, 6881), Nd(14, 6881), Nd(16, 6881), Nd(18, 6881),
       Nd(3, 6881), Nd(4, 6882) >>

(* Node lists of the replies: every run of consecutive catalogue entries,  *)
(* and one list that names the same node three times.                      *)
BootLists ==
    { SubSeq(BootCatalogue, i, j) : i \in 1..Len(BootCatalogue), j \in 1..Len(BootCatalogue) }
        \cup { << Nd(3, 6881), Nd(3, 6881), Nd(3, 6881) >> }

(* What the socket calls of a find_node RPC can yield during bootstrap.    *)
BootNet ==
    { Datagram(FindNodeReply(l)) : l \in BootLists }
        \cup { NoSocket, SendFail, RecvFail, Datagram(<<>>), Datagram(ErrorReply(S_aa)) }

(* What the socket calls of an eviction ping can yield.                    *)
PingNet ==
    { NoSocket, RecvFail, Datagram(<<>>), Datagram(PongReply(S_pp)),
      Datagram(ErrorReply(S_pp)), Datagram(<<120>>) }

(* add_to_routing_table pings only when the node is new to a full bucket: *)
(* the socket outcomes of that ping, or NoPing when no ping is made.       *)
NoPing == [kind |-> "noping"]

PingRx(table, node, bucket_index, net) ==
    IF /\ bucket_index < Len(table)
       /\ FindInBucket(table[bucket_index + 1], node) = 0
       /\ Len(table[bucket_index + 1]) >= K
    THEN net
    ELSE {NoPing}

(* Every socket outcome of a bootstrap find_node RPC with the result of    *)
(* send_find_node_request on it.                                           *)
BootOutcomes == { [rx |-> rx, res |-> FindNodeResult(rx)] : rx \in BootNet }

(***************************************************************************)
(* Inputs of the smaller specifications: three nodes at distances 3, 1, 2  *)
(* from the ID 0, a node named twice, and two nodes that share an ID.       *)
(***************************************************************************)

(* The node with ID MkId(0, last) at 10.0.1.last, port 6881.               *)
NdLow(last) == MkNode(MkId(0, last), inet_ntop(<<10, 0, 1, last>>), 6881)

SmallLists ==
    { << NdLow(3), NdLow(1), NdLow(2) >>,
      << Nd(3, 6881), Nd(3, 6881) >>,
      << Nd(4, 6881), Nd(4, 6882) >> }

SmallNet ==
    { Datagram(FindNodeReply(l)) : l \in SmallLists } \cup { RecvFail }

SmallOutcomes == { [rx |-> rx, res |-> FindNodeResult(rx)] : rx \in SmallNet }

(* Targets and sizes find_closest_nodes is called with.                    *)
Targets == { MkId(0, 0), MkId(3, 0), MkId(4, 1) }

MaxK == 3

(***************************************************************************)
(* Initial state: the state the constructor leaves.                        *)
(***************************************************************************)
NoDatagram == [data |-> <<>>, port |-> <<>>, ip |-> <<>>, message |-> Throw]
NoCall == [called |-> FALSE]

Init ==
    /\ my_node_id_ \in MyIds
    /\ routing_table_ = << <<>> >>
    /\ bootstrap_nodes_ = <<>>
    /\ peer_store_ = [h \in {} |-> <<>>]
    /\ pc = "init"
    /\ seed_idx = 1
    /\ nodes = <<>>
    /\ recv = NoDatagram
    /\ sent = <<>>
    /\ caught = FALSE
    /\ acked = {}
    /\ closest = NoCall
    /\ rpc = NoCall
    /\ open_sockets = 0
    /\ sock_ = "open"
    /\ codec = <<>>

(***************************************************************************)
(* add_bootstrap_node(ip, port); id is what generate_random_node_id gave.  *)
(***************************************************************************)
(* add_bootstrap_node that also stores the seed, with its placeholder ID,  *)
(* in the first bucket of the routing table.                               *)
add_bootstrap_node_Insert(ip, port, id) ==
    /\ Len(bootstrap_nodes_) < MaxSeeds
    /\ bootstrap_nodes_' = Append(bootstrap_nodes_, MkNode(id, ip, port))
    /\ routing_table_' = [routing_table_ EXCEPT
                              ![1] = InsertIntoBucket(@, MkNode(id, ip, port), NoPing)]
    /\ UNCHANGED <<my_node_id_, peer_store_, pc, seed_idx, nodes,
                   recv, sent, caught, acked, closest,
                   rpc, open_sockets, sock_, codec>>

add_bootstrap_node(ip, port, id) ==
    /\ Len(bootstrap_nodes_) < MaxSeeds
    /\ bootstrap_nodes_' = Append(bootstrap_nodes_, MkNode(id, ip, port))
    /\ UNCHANGED <<my_node_id_, routing_table_, peer_store_, pc, seed_idx, nodes,
                   recv, sent, caught, acked, closest,
                   rpc, open_sockets, sock_, codec>>

(* The host adds its seeds before it calls bootstrap().                    *)
AddBootstrapNode(ip, port, id) ==
    /\ pc = "init"
    /\ add_bootstrap_node(ip, port, id)

(***************************************************************************)
(* bootstrap(): the call, one find_node RPC per seed, one                  *)
(* add_to_routing_table per returned node, the return.                     *)
(***************************************************************************)
BootstrapCall ==
    /\ pc = "init"
    /\ pc' = "bootstrap"
    /\ seed_idx' = 1
    /\ nodes' = <<>>
    /\ UNCHANGED <<my_node_id_, routing_table_, bootstrap_nodes_, peer_store_,
                   recv, sent, caught, acked, closest,
                   rpc, open_sockets, sock_, codec>>

(* send_find_node_request(bootstrap_node, my_node_id_) whose socket calls  *)
(* yielded rx and which returned res.                                      *)
BootstrapFindNode(rx, res) ==
    /\ pc = "bootstrap"
    /\ nodes = <<>>
    /\ seed_idx <= Len(bootstrap_nodes_)
    /\ IF res.hung
       THEN pc' = "hung" /\ UNCHANGED <<seed_idx, nodes>>
       ELSE pc' = pc /\ seed_idx' = seed_idx + 1 /\ nodes' = res.nodes
    /\ rpc' = [nodes |-> res.nodes, rx |-> rx, called |-> TRUE,
               op |-> "find_node", to |-> bootstrap_nodes_[seed_idx], target |-> my_node_id_,
               returned |-> ~res.hung, open_before |-> open_sockets]
    /\ open_sockets' = SocketsAfter(open_sockets, FindNodeSocketCalls(rx, res.hung))
    /\ UNCHANGED <<my_node_id_, routing_table_, bootstrap_nodes_, peer_store_,
                   recv, sent, caught, acked, closest, sock_, codec>>

(* add_to_routing_table(node) for the next node of the reply.              *)
BootstrapInsert(bucket_index, rx) ==
    /\ pc = "bootstrap"
    /\ nodes # <<>>
    /\ routing_table_' = add_to_routing_table(routing_table_, Head(nodes), bucket_index, rx)
    /\ nodes' = Tail(nodes)
    /\ IF rx.kind = "noping"
       THEN rpc' = rpc
       ELSE rpc' = [rx |-> rx, called |-> TRUE, op |-> "ping",
                    to |-> routing_table_[bucket_index + 1][1], returned |-> TRUE,
                    open_before |-> open_sockets,
                    alive |-> ping(routing_table_[bucket_index + 1][1], rx)]
    /\ open_sockets' = SocketsAfter(open_sockets, PingSocketCalls(rx))
    /\ UNCHANGED <<my_node_id_, bootstrap_nodes_, peer_store_, pc, seed_idx,
                   recv, sent, caught, acked, closest, sock_, codec>>

(* The insertion step with every bucket index the scan can stop at and     *)
(* every outcome of the eviction ping.                                     *)
BootstrapInsertAny(net) ==
    /\ pc = "bootstrap"
    /\ nodes # <<>>
    /\ \E bucket_index \in BucketIndexes(xor_distance(my_node_id_, Head(nodes).id),
                                         Len(routing_table_)) :
           \E rx \in PingRx(routing_table_, Head(nodes), bucket_index, net) :
               BootstrapInsert(bucket_index, rx)

BootstrapReturn ==
    /\ pc = "bootstrap"
    /\ nodes = <<>>
    /\ seed_idx > Len(bootstrap_nodes_)
    /\ pc' = "done"
    /\ UNCHANGED <<my_node_id_, routing_table_, bootstrap_nodes_, peer_store_,
                   seed_idx, nodes, recv, sent, caught, acked, closest,
                   rpc, open_sockets, sock_, codec>>

(***************************************************************************)
(* A direct call find_closest_nodes(target_id, k) on the table bootstrap() *)
(* left, returning result.                                                 *)
(***************************************************************************)
FindClosestCall(target_id, k, result) ==
    /\ pc = "done"
    /\ closest = NoCall
    /\ result \in find_closest_nodes(routing_table_, target_id, k)
    /\ closest' = [k |-> k, result |-> result, called |-> TRUE, target |-> target_id]
    /\ UNCHANGED <<my_node_id_, routing_table_, bootstrap_nodes_, peer_store_,
                   pc, seed_idx, nodes, recv, sent, caught, acked,
                   rpc, open_sockets, sock_, codec>>

(***************************************************************************)
(* The engine up to the return of bootstrap().                             *)
(***************************************************************************)
Next ==
    \/ \E a \in SeedAddrs, id \in RandomIds : AddBootstrapNode(a.ip, a.port, id)
    \/ BootstrapCall
    \/ \E o \in BootOutcomes : BootstrapFindNode(o.rx, o.res)
    \/ BootstrapInsertAny(PingNet)
    \/ BootstrapReturn

Spec == Init /\ [][Next]_vars

(***************************************************************************)
(* bootstrap() against seeds that answer a find_node query in every way    *)
(* send_find_node_request distinguishes.                                   *)
(***************************************************************************)

(* A message with the top-level keys t, y and the given further pairs.     *)
ReplyWith(y, pairs) ==
    encode(BDict(DictOf(<< <<S_t, BStr(S_aa)>>, <<S_y, BStr(y)>> >> \o pairs)))

(* Nine nodes that the local IDs put in one bucket: the ninth finds the    *)
(* bucket full.                                                            *)
NineNodes == [i \in 1..(K + 1) |-> NdLow(i)]

(* NdLow(0) has the ID MkId(0, 0), one of the local IDs.  The last         *)
(* datagram is a find_node response whose "t" is "zz", not the "aa" of the *)
(* query.                                                                  *)
RpcNet ==
    { NoSocket, SendFail, RecvFail, Datagram(<<>>),
      Datagram(<<120>>),
      Datagram(<<CH_d, CH_minus, 52, CH_colon>>),
      Datagram(encode(BInt(5))),
      Datagram(encode(BDict(DictOf(<< <<S_t, BStr(S_aa)>> >>)))),
      Datagram(ErrorReply(S_aa)),
      Datagram(ReplyWith(S_q, << <<S_q, BStr(S_find_node)>> >>)),
      Datagram(ReplyWith(S_r, <<>>)),
      Datagram(ReplyWith(S_r, << <<S_r, BStr(S_nodes)>> >>)),
      Datagram(PongReply(S_aa)),
      Datagram(ReplyWith(S_r, << <<S_r, BDict(DictOf(<< <<S_nodes, BInt(5)>> >>))>> >>)),
      Datagram(FindNodeReply(<<>>)),
      Datagram(FindNodeReply(<< NdLow(3), NdLow(1), NdLow(2) >>)),
      Datagram(FindNodeReply(NineNodes)),
      Datagram(FindNodeReply(<< NdLow(0) >>)),
      Datagram(encode(BDict(DictOf(<<
          <<S_t, BStr(<<122, 122>>)>>,
          <<S_y, BStr(S_r)>>,
          <<S_r, BDict(DictOf(<< <<S_id, BStr(MkId(170, 85))>>,
                                 <<S_nodes, BStr(encode_nodes(<< NdLow(4) >>))>> >>))>> >>)))) }

RpcOutcomes == { [rx |-> rx, res |-> FindNodeResult(rx)] : rx \in RpcNet }

(* One step of bootstrap() after the call.                                 *)
BootstrapStep ==
    \/ \E o \in RpcOutcomes : BootstrapFindNode(o.rx, o.res)
    \/ BootstrapInsertAny(PingNet)
    \/ BootstrapReturn

NextRpc ==
    \/ \E a \in SeedAddrs, id \in RandomIds : AddBootstrapNode(a.ip, a.port, id)
    \/ BootstrapCall
    \/ BootstrapStep

SpecRpc == Init /\ [][NextRpc]_vars

(* The call of send_find_node_request on which socket() fails.  It is      *)
(* enabled exactly when bootstrap() is about to query a seed.              *)
QueryWithoutSocket == BootstrapFindNode(NoSocket, FindNodeResult(NoSocket))

(* bootstrap() is one thread of straight-line code: once called it takes   *)
(* its next step whenever it has one.  bootstrap() makes finitely many     *)
(* queries, so it suffices to state the fairness of the query step on      *)
(* QueryWithoutSocket: a behaviour may not stop where a query is due.      *)
SpecRpcFair ==
    /\ SpecRpc
    /\ WF_vars(QueryWithoutSocket)
    /\ WF_vars(BootstrapInsertAny(PingNet))
    /\ WF_vars(BootstrapReturn)

(***************************************************************************)
(* bootstrap() on the small inputs, then calls of find_closest_nodes.      *)
(***************************************************************************)
NextClosest ==
    \/ \E a \in SeedAddrs, id \in RandomIds : AddBootstrapNode(a.ip, a.port, id)
    \/ BootstrapCall
    \/ \E o \in SmallOutcomes : BootstrapFindNode(o.rx, o.res)
    \/ BootstrapInsertAny(PingNet)
    \/ BootstrapReturn
    \/ /\ pc = "done"
       /\ closest = NoCall
       /\ \E target_id \in Targets, k \in (0..MaxK) \cup {K} :
              \E result \in find_closest_nodes(routing_table_, target_id, k) :
                  FindClosestCall(target_id, k, result)

SpecClosest == Init /\ [][NextClosest]_vars

(***************************************************************************)
(* Inputs of the serve loop.                                               *)
(***************************************************************************)

(* Source addresses of inbound datagrams: sin_addr and sin_port.           *)
Senders == { [port |-> <<4, 210>>, ip |-> <<9, 9, 9, 9>>],
             [port |-> <<26, 225>>, ip |-> <<10, 0, 200, 1>>] }

(* A transaction ID, two infohashes (H2 is never announced), and a string  *)
(* too short for either an infohash or a target.                           *)
TID == <<116, 49>>
H1 == MkId(0, 0)
H2 == MkId(9, 9)
ShortHash == <<1, 2, 3>>

(* The bencoded dictionary with the given <<key, value>> pairs.            *)
Krpc(pairs) == encode(BDict(DictOf(pairs)))

(* The argument dictionary {id, key: value} of a query.                    *)
Args(key, value) == BDict(DictOf(<< <<S_id, BStr(MkId(170, 85))>>, <<key, value>> >>))

(* A complete query, the same query without "t", and with an integer "t".  *)
Query(q, a) == Krpc(<< <<S_t, BStr(TID)>>, <<S_y, BStr(S_q)>>, <<S_q, BStr(q)>>, <<S_a, a>> >>)
QueryNoT(q, a) == Krpc(<< <<S_y, BStr(S_q)>>, <<S_q, BStr(q)>>, <<S_a, a>> >>)
QueryIntT(q, a) == Krpc(<< <<S_t, BInt(7)>>, <<S_y, BStr(S_q)>>, <<S_q, BStr(q)>>, <<S_a, a>> >>)

OnlyId == BDict(DictOf(<< <<S_id, BStr(MkId(170, 85))>> >>))

(* The datagrams remote peers send to the serving engine: the four queries *)
(* well formed, each query with a missing or misshapen field, messages     *)
(* that are no queries, and bytes that are no bencoding.                   *)
ServeDatagrams ==
    { Query(S_ping, OnlyId), QueryNoT(S_ping, OnlyId), QueryIntT(S_ping, OnlyId),
      Query(S_find_node, Args(S_target, BStr(MkId(0, 0)))),
      Query(S_find_node, Args(S_target, BStr(MkId(0, 4)))),
      Query(S_find_node, Args(S_target, BStr(ShortHash))),
      Query(S_find_node, OnlyId),
      QueryNoT(S_find_node, Args(S_target, BStr(MkId(0, 0)))),
      Query(S_get_peers, Args(S_info_hash, BStr(H1))),
      Query(S_get_peers, Args(S_info_hash, BStr(H2))),
      Query(S_get_peers, Args(S_info_hash, BStr(ShortHash))),
      QueryNoT(S_get_peers, Args(S_info_hash, BStr(H1))),
      Query(S_announce_peer, Args(S_info_hash, BStr(H1))),
      Query(S_announce_peer, Args(S_info_hash, BStr(ShortHash))),
      Query(S_announce_peer, Args(S_info_hash, BInt(5))),
      QueryNoT(S_announce_peer, Args(S_info_hash, BStr(H1))),
      Query(<<118>>, OnlyId),
      Krpc(<< <<S_t, BStr(TID)>>, <<S_y, BStr(S_q)>> >>),
      Krpc(<< <<S_t, BStr(TID)>>, <<S_q, BStr(S_ping)>> >>),
      PongReply(TID),
      encode(BInt(1)),
      <<>>, <<120>>,
      <<CH_d, CH_minus, 52, CH_colon>> }

(* Every datagram with the outcome of parser.parse on the received bytes.  *)
ServeInputs == { [data |-> d, msg |-> parse(Received(d))] : d \in ServeDatagrams }

(* Replies the seeds give before the engine serves: three nodes at         *)
(* distances 3, 1, 2 from the ID 0, or six nodes farther away.             *)
ServeNet ==
    { Datagram(FindNodeReply(<< NdLow(3), NdLow(1), NdLow(2) >>)),
      Datagram(FindNodeReply(<< NdLow(4), NdLow(5), NdLow(6), NdLow(7), NdLow(8),
                                Nd(3, 6881) >>)) }

ServeOutcomes == { [rx |-> rx, res |-> FindNodeResult(rx)] : rx \in ServeNet }

(* What an eviction ping yields while the table is filled for serving.     *)
ServePingNet == { RecvFail, Datagram(PongReply(S_pp)) }

(* Upper bound on the number of peers in the peer store.                   *)
MaxPeers == 2

(* Number of peers in all lists of the peer store.                         *)
RECURSIVE StoreSizeOver(_, _)
StoreSizeOver(store, keys) ==
    IF keys = {} THEN 0
    ELSE LET h == CHOOSE x \in keys : TRUE
         IN  Len(store[h]) + StoreSizeOver(store, keys \ {h})

StoreSize(store) == StoreSizeOver(store, DOMAIN store)

(***************************************************************************)
(* run(): the call, and one iteration of its loop per datagram.            *)
(***************************************************************************)
RunCall ==
    /\ pc \in {"init", "done"}
    /\ pc' = "run"
    /\ UNCHANGED <<my_node_id_, routing_table_, bootstrap_nodes_, peer_store_,
                   seed_idx, nodes, recv, sent, caught, acked, closest,
                   rpc, open_sockets, sock_, codec>>

(* Whether msg is a query of the given type.                               *)
IsQuery(msg, q) ==
    msg.ok /\ HasStr(msg.v, S_y) /\ msg.v.d[S_y].s = S_q /\ HasStr(msg.v, S_q)
           /\ msg.v.d[S_q].s = q

(* The announcement that was answered while the datagram was handled.      *)
AnsweredAnnounce(msg, sender, out) ==
    IF IsQuery(msg, S_announce_peer) /\ out.sent # <<>>
    THEN { [port |-> sender.port,
            ip |-> sender.ip, infohash |-> msg.v.d[S_a].d[S_info_hash].s] }
    ELSE {}

(* recvfrom delivers the datagram `in` from sender; the message is parsed, *)
(* dispatched and handled.                                                 *)
RunRecv(in, sender) ==
    /\ pc = "run"
    /\ ~in.msg.diverges
    /\ \E out \in Dispatch(in.msg, sender, my_node_id_, routing_table_, peer_store_) :
           /\ StoreSize(out.store) <= MaxPeers
           /\ sent' = out.sent
           /\ caught' = out.threw
           /\ peer_store_' = out.store
           /\ acked' = acked \cup AnsweredAnnounce(in.msg, sender, out)
    /\ recv' = [data |-> Received(in.data), port |-> sender.port, ip |-> sender.ip,
                message |-> in.msg]
    /\ pc' = "handled"
    /\ UNCHANGED <<my_node_id_, routing_table_, bootstrap_nodes_, seed_idx, nodes, closest,
                   rpc, open_sockets, sock_, codec>>

(* recvfrom delivers a datagram on which parser.parse never returns.       *)
RunRecvHang(in, sender) ==
    /\ pc = "run"
    /\ in.msg.diverges
    /\ recv' = [data |-> Received(in.data), port |-> sender.port, ip |-> sender.ip,
                message |-> in.msg]
    /\ pc' = "hung"
    /\ UNCHANGED <<my_node_id_, routing_table_, bootstrap_nodes_, peer_store_,
                   seed_idx, nodes, sent, caught, acked, closest,
                   rpc, open_sockets, sock_, codec>>

(* recvfrom returns a negative value: the loop continues.                  *)
RunRecvFail ==
    /\ pc = "run"
    /\ pc' = "handled"
    /\ UNCHANGED <<my_node_id_, routing_table_, bootstrap_nodes_, peer_store_,
                   seed_idx, nodes, recv, sent, caught, acked, closest,
                   rpc, open_sockets, sock_, codec>>

(* The loop goes back to recvfrom.                                         *)
RunLoop ==
    /\ pc = "handled"
    /\ pc' = "run"
    /\ recv' = NoDatagram
    /\ sent' = <<>>
    /\ caught' = FALSE
    /\ UNCHANGED <<my_node_id_, routing_table_, bootstrap_nodes_, peer_store_,
                   seed_idx, nodes, acked, closest,
                   rpc, open_sockets, sock_, codec>>

(***************************************************************************)
(* The engine bootstrapped from one seed and then serving.                 *)
(***************************************************************************)
NextServe ==
    \/ \E a \in SeedAddrs : AddBootstrapNode(a.ip, a.port, MkId(170, 85))
    \/ BootstrapCall
    \/ \E o \in ServeOutcomes : BootstrapFindNode(o.rx, o.res)
    \/ BootstrapInsertAny(ServePingNet)
    \/ BootstrapReturn
    \/ RunCall
    \/ \E in \in ServeInputs, sender \in Senders : RunRecv(in, sender)
    \/ \E in \in ServeInputs, sender \in Senders : RunRecvHang(in, sender)
    \/ RunRecvFail
    \/ RunLoop

SpecServe == Init /\ [][NextServe]_vars

(***************************************************************************)
(* run() on its own, called right after construction.  The single thread   *)
(* of run() goes from the end of one loop iteration to the next recvfrom:  *)
(* weak fairness of RunLoop.                                               *)
(***************************************************************************)
NextRun ==
    \/ RunCall
    \/ \E in \in ServeInputs, sender \in Senders : RunRecv(in, sender)
    \/ \E in \in ServeInputs, sender \in Senders : RunRecvHang(in, sender)
    \/ RunRecvFail
    \/ RunLoop

SpecRunFair == Init /\ [][NextRun]_vars /\ WF_vars(RunLoop)

(***************************************************************************)
(* The other public calls of the engine, made by the host after            *)
(* bootstrap() returned: add_bootstrap_node, findPeers and a direct        *)
(* send_find_node_request.                                                 *)
(***************************************************************************)

(* add_bootstrap_node called after bootstrap().                            *)
AddBootstrapNodeLate(ip, port, id) ==
    /\ pc = "done"
    /\ add_bootstrap_node(ip, port, id)

(* findPeers(info_hash): the call.  allPeers is held in nodes, the loop    *)
(* position in seed_idx.                                                   *)
FindPeersCall(info_hash) ==
    /\ pc = "done"
    /\ pc' = "findPeers"
    /\ seed_idx' = 1
    /\ nodes' = <<>>
    /\ rpc' = [nodes |-> <<>>, called |-> TRUE, op |-> "findPeers",
               target |-> info_hash, returned |-> FALSE]
    /\ UNCHANGED <<my_node_id_, routing_table_, bootstrap_nodes_, peer_store_,
                   recv, sent, caught, acked, closest, open_sockets, sock_, codec>>

(* send_find_node_request(bootstrap_node, info_hash) inside findPeers: its *)
(* socket calls yielded rx and it returned res, which is appended to       *)
(* allPeers.                                                               *)
FindPeersFindNode(rx, res) ==
    /\ pc = "findPeers"
    /\ seed_idx <= Len(bootstrap_nodes_)
    /\ IF res.hung
       THEN pc' = "hung" /\ UNCHANGED <<seed_idx, nodes>>
       ELSE pc' = pc /\ seed_idx' = seed_idx + 1 /\ nodes' = nodes \o res.nodes
    /\ rpc' = [nodes |-> res.nodes, rx |-> rx, called |-> TRUE,
               op |-> "find_node", to |-> bootstrap_nodes_[seed_idx], target |-> rpc.target,
               returned |-> ~res.hung, open_before |-> open_sockets]
    /\ open_sockets' = SocketsAfter(open_sockets, FindNodeSocketCalls(rx, res.hung))
    /\ UNCHANGED <<my_node_id_, routing_table_, bootstrap_nodes_, peer_store_,
                   recv, sent, caught, acked, closest, sock_, codec>>

(* findPeers returns allPeers.                                             *)
FindPeersReturn ==
    /\ pc = "findPeers"
    /\ seed_idx > Len(bootstrap_nodes_)
    /\ pc' = "done"
    /\ nodes' = <<>>
    /\ rpc' = [nodes |-> nodes, called |-> TRUE, op |-> "findPeers",
               target |-> rpc.target, returned |-> TRUE]
    /\ UNCHANGED <<my_node_id_, routing_table_, bootstrap_nodes_, peer_store_,
                   seed_idx, recv, sent, caught, acked, closest,
                   open_sockets, sock_, codec>>

(* send_find_node_request(remote_node, target_id) called by the host, as   *)
(* main() does.                                                            *)
SendFindNodeRequest(remote_node, target_id, rx, res) ==
    /\ pc = "done"
    /\ pc' = IF res.hung THEN "hung" ELSE pc
    /\ rpc' = [nodes |-> res.nodes, rx |-> rx, called |-> TRUE,
               op |-> "find_node", to |-> remote_node, target |-> target_id,
               returned |-> ~res.hung, open_before |-> open_sockets]
    /\ open_sockets' = SocketsAfter(open_sockets, FindNodeSocketCalls(rx, res.hung))
    /\ UNCHANGED <<my_node_id_, routing_table_, bootstrap_nodes_, peer_store_,
                   seed_idx, nodes, recv, sent, caught, acked, closest, sock_, codec>>

(* What the remote nodes answer to the host's calls: nothing, an error,    *)
(* two nodes, or bytes on which the parser never returns.                  *)
ApiNet ==
    { RecvFail,
      Datagram(ErrorReply(S_aa)),
      Datagram(FindNodeReply(<< NdLow(1), NdLow(2) >>)),
      Datagram(<<CH_d, CH_minus, 52, CH_colon>>) }

ApiOutcomes == { [rx |-> rx, res |-> FindNodeResult(rx)] : rx \in ApiNet }

(* The reply of the seed during bootstrap: three nodes.                    *)
ApiBootOutcomes ==
    { [rx |-> rx, res |-> FindNodeResult(rx)] :
          rx \in { Datagram(FindNodeReply(<< NdLow(3), NdLow(1), NdLow(2) >>)) } }

(* The datagrams the engine receives while serving: each query, a          *)
(* response, an error, bytes that are no bencoding and bytes on which the  *)
(* parser never returns.                                                   *)
ApiDatagrams ==
    { Query(S_ping, OnlyId),
      Query(S_find_node, Args(S_target, BStr(MkId(0, 0)))),
      Query(S_get_peers, Args(S_info_hash, BStr(H1))),
      Query(S_get_peers, Args(S_info_hash, BStr(H2))),
      Query(S_announce_peer, Args(S_info_hash, BStr(H1))),
      Query(S_announce_peer, Args(S_info_hash, BStr(ShortHash))),
      Query(<<118>>, OnlyId),
      PongReply(TID),
      FindNodeReply(<< NdLow(5) >>),
      ErrorReply(TID),
      Krpc(<< <<S_t, BStr(TID)>>, <<S_y, BStr(<<120>>)>> >>),
      <<120>>,
      <<CH_d, CH_minus, 52, CH_colon>> }

ApiInputs == { [data |-> d, msg |-> parse(Received(d))] : d \in ApiDatagrams }

NextApi ==
    \/ \E a \in SeedAddrs : AddBootstrapNode(a.ip, a.port, MkId(3, 0))
    \/ BootstrapCall
    \/ \E o \in ApiBootOutcomes : BootstrapFindNode(o.rx, o.res)
    \/ BootstrapInsertAny(ServePingNet)
    \/ BootstrapReturn
    \/ \E a \in SeedAddrs : AddBootstrapNodeLate(a.ip, a.port, MkId(3, 0))
    \/ FindPeersCall(H1)
    \/ \E o \in ApiOutcomes : FindPeersFindNode(o.rx, o.res)
    \/ FindPeersReturn
    \/ \E o \in ApiOutcomes :
           /\ bootstrap_nodes_ # <<>>
           /\ SendFindNodeRequest(bootstrap_nodes_[1], MkId(0, 0), o.rx, o.res)
    \/ RunCall
    \/ \E in \in ApiInputs, sender \in Senders : RunRecv(in, sender)
    \/ \E in \in ApiInputs, sender \in Senders : RunRecvHang(in, sender)
    \/ RunRecvFail
    \/ RunLoop

SpecApi == Init /\ [][NextApi]_vars

(***************************************************************************)
(* The codec used on its own: BencodeEncoder::encode on a value and        *)
(* BencodeParser::parse on bytes, and each on the result of the other.     *)
(* codec is the sequence of the calls made, each with its argument `in`    *)
(* and its result `out`.                                                   *)
(***************************************************************************)

(* Values handed to encode: integers, byte-strings, and lists and          *)
(* dictionaries of them nested twice.                                      *)
CodecLeaves ==
    { BInt(0), BInt(7), BInt(10), BInt(-1), BInt(-42), BInt(2147483647),
      BStr(<<>>), BStr(<<97>>), BStr(<<CH_i, 49, CH_e>>), BStr(<<0, 255>>),
      BStr(<<115, 112, 97, 109>>) }

CodecKeys == { <<>>, <<97>>, <<98>>, <<97, 97>>, <<66>> }

CodecValues ==
    LET few == { BInt(-1), BInt(10), BStr(<<97>>) }
        keys == { <<97>>, <<98>>, <<97, 97>> }
        flat == { BList(<<>>), BDict(EmptyDict) }
                    \cup { BList(<<x>>) : x \in CodecLeaves }
                    \cup { BList(<<x, y>>) : x \in few, y \in few }
                    \cup { BDict(DictPut(EmptyDict, k, x)) : k \in CodecKeys, x \in few }
                    \cup { BDict(DictPut(DictPut(EmptyDict, p[1], x), p[2], BInt(7))) :
                               p \in { q \in keys \X keys : q[1] # q[2] }, x \in few }
        inner == { BList(<<>>), BList(<<BInt(7)>>), BDict(EmptyDict),
                   BDict(DictPut(EmptyDict, <<97>>, BInt(-1))),
                   BDict(DictPut(DictPut(EmptyDict, <<98>>, BStr(<<97>>)), <<97>>, BInt(0))) }
        nested == { BList(<<u>>) : u \in inner }
                    \cup { BList(<<u, x, w>>) : u \in inner, x \in few, w \in inner }
                    \cup { BDict(DictPut(EmptyDict, k, u)) : k \in keys, u \in inner }
                    \cup { BDict(DictPut(DictPut(EmptyDict, <<98>>, u), <<97>>, w)) :
                               u \in inner, w \in inner }
    IN  CodecLeaves \cup flat \cup nested

(* The byte sequences handed to parse, in this order: `i0e`, `i7e`,        *)
(* `i-42e`, `i2147483647e`, `i01e`, `i00e`, `i-0e`, `i-01e`, `ie`, `i-e`,  *)
(* `iXe`, `i+5e`, `i 5e`, `i5xe`, `i5`, `0:`, `4:spam`, `1:a`, `2:a`,      *)
(* `01:a`, `-1:`, `5`, `le`, `li1ei2e3:abce`, `li1e`, `l`, `de`,           *)
(* `d1:ai1e1:bi2ee`, `d1:bi2e1:ai1ee`, `d1:Bi1e1:ai2ee`,                   *)
(* `d1:ai1e2:aai2ee`, `d1:b0:1:ali1eee`, `ld1:bi1e1:ai2eee`,               *)
(* `d1:xd1:b1:b1:a1:aee`, `d6:lengthi10e4:name1:x12:piece                  *)
(* lengthi4e6:pieces0:e`, `d1:ai1e1:ai2ee`, `d1:ai1e`, `di1ei2ee`, `d`,    *)
(* `d1:a`, `d-4:`, ``, `x`, `e`, `:`, `-`, ` i1e`, `\0`, `I1e`, `i1exyz`.  *)
CodecInputs ==
    { <<105, 48, 101>>,
      <<105, 55, 101>>,
      <<105, 45, 52, 50, 101>>,
      <<105, 50, 49, 52, 55, 52, 56, 51, 54, 52, 55, 101>>,
      <<105, 48, 49, 101>>,
      <<105, 48, 48, 101>>,
      <<105, 45, 48, 101>>,
      <<105, 45, 48, 49, 101>>,
      <<105, 101>>,
      <<105, 45, 101>>,
      <<105, 88, 101>>,
      <<105, 43, 53, 101>>,
      <<105, 32, 53, 101>>,
      <<105, 53, 120, 101>>,
      <<105, 53>>,
      <<48, 58>>,
      <<52, 58, 115, 112, 97, 109>>,
      <<49, 58, 97>>,
      <<50, 58, 97>>,
      <<48, 49, 58, 97>>,
      <<45, 49, 58>>,
      <<53>>,
      <<108, 101>>,
      <<108, 105, 49, 101, 105, 50, 101, 51, 58, 97, 98, 99, 101>>,
      <<108, 105, 49, 101>>,
      <<108>>,
      <<100, 101>>,
      <<100, 49, 58, 97, 105, 49, 101, 49, 58, 98, 105, 50, 101, 101>>,
      <<100, 49, 58, 98, 105, 50, 101, 49, 58, 97, 105, 49, 101, 101>>,
      <<100, 49, 58, 66, 105, 49, 101, 49, 58, 97, 105, 50, 101, 101>>,
      <<100, 49, 58, 97, 105, 49, 101, 50, 58, 97, 97, 105, 50, 101, 101>>,
      <<100, 49, 58, 98, 48, 58, 49, 58, 97, 108, 105, 49, 101, 101, 101>>,
      <<108, 100, 49, 58, 98, 105, 49, 101, 49, 58, 97, 105, 50, 101, 101, 101>>,
      <<100, 49, 58, 120, 100, 49, 58, 98, 49, 58, 98, 49, 58, 97, 49, 58, 97, 101, 101>>,
      <<100, 54, 58, 108, 101, 110, 103, 116, 104, 105, 49, 48, 101, 52, 58, 110, 97, 109, 101, 49, 58, 120, 49, 50, 58, 112, 105, 101, 99, 101, 32, 108, 101, 110, 103, 116, 104, 105, 52, 101, 54, 58, 112, 105, 101, 99, 101, 115, 48, 58, 101>>,
      <<100, 49, 58, 97, 105, 49, 101, 49, 58, 97, 105, 50, 101, 101>>,
      <<100, 49, 58, 97, 105, 49, 101>>,
      <<100, 105, 49, 101, 105, 50, 101, 101>>,
      <<100>>,
      <<100, 49, 58, 97>>,
      <<100, 45, 52, 58>>,
      <<100, 45, 50, 58, 97, 98, 101>>,
      <<51, 120, 58, 97, 98, 99>>,
      <<>>,
      <<120>>,
      <<101>>,
      <<58>>,
      <<45>>,
      <<32, 105, 49, 101>>,
      <<0>>,
      <<73, 49, 101>>,
      <<105, 49, 101, 120, 121, 122>> }

(* encode(v) on a value of the caller.                                     *)
EncodeCall(v) ==
    /\ codec = <<>>
    /\ codec' = << [in |-> v, op |-> "encode", out |-> encode(v)] >>
    /\ UNCHANGED <<my_node_id_, routing_table_, bootstrap_nodes_, peer_store_,
                   pc, seed_idx, nodes, recv, sent, caught, acked, closest,
                   rpc, open_sockets, sock_>>

(* parse(data) on bytes of the caller.                                     *)
ParseCall(data) ==
    /\ codec = <<>>
    /\ codec' = << [in |-> data, op |-> "parse", out |-> parse(data)] >>
    /\ UNCHANGED <<my_node_id_, routing_table_, bootstrap_nodes_, peer_store_,
                   pc, seed_idx, nodes, recv, sent, caught, acked, closest,
                   rpc, open_sockets, sock_>>

(* parse on the bytes encode returned.                                     *)
ParseEncoded ==
    /\ Len(codec) = 1
    /\ codec[1].op = "encode"
    /\ codec' = Append(codec, [in |-> codec[1].out, op |-> "parse",
                               out |-> parse(codec[1].out)])
    /\ UNCHANGED <<my_node_id_, routing_table_, bootstrap_nodes_, peer_store_,
                   pc, seed_idx, nodes, recv, sent, caught, acked, closest,
                   rpc, open_sockets, sock_>>

(* encode on the value parse returned.                                     *)
EncodeParsed ==
    /\ Len(codec) = 1
    /\ codec[1].op = "parse"
    /\ codec[1].out.ok
    /\ codec' = Append(codec, [in |-> codec[1].out.v, op |-> "encode",
                               out |-> encode(codec[1].out.v)])
    /\ UNCHANGED <<my_node_id_, routing_table_, bootstrap_nodes_, peer_store_,
                   pc, seed_idx, nodes, recv, sent, caught, acked, closest,
                   rpc, open_sockets, sock_>>

NextCodec ==
    \/ \E v \in CodecValues : EncodeCall(v)
    \/ \E data \in CodecInputs : ParseCall(data)
    \/ ParseEncoded
    \/ EncodeParsed

SpecCodec == Init /\ [][NextCodec]_vars

(***************************************************************************)
(* TorrentFileParser: the metainfo reader built on the codec.  A step of   *)
(* it yields Extracted(v), or Throw when the source throws.                *)
(***************************************************************************)

(* The dictionary keys the reader looks up.                                *)
K_info == <<105, 110, 102, 111>>
K_announce == <<97, 110, 110, 111, 117, 110, 99, 101>>
K_comment == <<99, 111, 109, 109, 101, 110, 116>>
K_creation_date == <<99, 114, 101, 97, 116, 105, 111, 110, 32, 100, 97, 116, 101>>
K_name == <<110, 97, 109, 101>>
K_piece_length == <<112, 105, 101, 99, 101, 32, 108, 101, 110, 103, 116, 104>>
K_pieces == <<112, 105, 101, 99, 101, 115>>
K_length == <<108, 101, 110, 103, 116, 104>>
K_files == <<102, 105, 108, 101, 115>>
K_path == <<112, 97, 116, 104>>

Extracted(v) == [v |-> v, ok |-> TRUE, diverges |-> FALSE]

(* extractString with the default for a missing key left out.              *)
extractString_NoDefault(dict, key) ==
    IF ~isDict(dict) THEN Throw
    ELSE IF key \notin DOMAIN dict.d THEN Throw
    ELSE IF ~isString(dict.d[key]) THEN Throw
    ELSE Extracted(dict.d[key].s)

extractString(dict, key) ==
    IF ~isDict(dict) THEN Throw
    ELSE IF key \notin DOMAIN dict.d THEN Extracted(<<>>)
    ELSE IF ~isString(dict.d[key]) THEN Throw
    ELSE Extracted(dict.d[key].s)

extractInt(dict, key) ==
    IF ~isDict(dict) THEN Throw
    ELSE IF key \notin DOMAIN dict.d THEN Extracted(0)
    ELSE IF ~isInt(dict.d[key]) THEN Throw
    ELSE Extracted(dict.d[key].i)

(* The loop of extractPieces: the 20-byte pieces from offset i on.         *)
RECURSIVE SplitPieces(_, _)
SplitPieces(piecesStr, i) ==
    IF i + 20 <= Len(piecesStr)
    THEN <<Substr(piecesStr, i, 20)>> \o SplitPieces(piecesStr, i + 20)
    ELSE <<>>

extractPieces(dict) ==
    IF ~isDict(dict) THEN Throw
    ELSE IF K_pieces \notin DOMAIN dict.d THEN Throw
    ELSE IF ~isString(dict.d[K_pieces]) THEN Throw
    ELSE Extracted(SplitPieces(dict.d[K_pieces].s, 0))

(* The loop over pathList: the components joined with "/".                 *)
RECURSIVE JoinPath(_, _)
JoinPath(pathList, path) ==
    IF pathList = <<>> THEN Extracted(path)
    ELSE IF ~isString(Head(pathList)) THEN Throw
    ELSE JoinPath(Tail(pathList),
                  (IF path # <<>> THEN path \o <<47>> ELSE path) \o Head(pathList).s)

(* The loop over filesList.                                                *)
RECURSIVE FilesFrom(_, _)
FilesFrom(filesList, files) ==
    IF filesList = <<>> THEN Extracted(files)
    ELSE LET fileDict == Head(filesList)
         IN  IF ~isDict(fileDict) THEN Throw
             ELSE LET length == extractInt(fileDict, K_length)
                  IN  IF ~length.ok THEN Throw
                      ELSE IF K_path \notin DOMAIN fileDict.d THEN Throw
                      ELSE IF ~isList(fileDict.d[K_path]) THEN Throw
                      ELSE LET path == JoinPath(fileDict.d[K_path].l, <<>>)
                           IN  IF ~path.ok THEN Throw
                               ELSE FilesFrom(Tail(filesList),
                                              Append(files, <<path.v, length.v>>))

extractFiles(dict) ==
    IF ~isDict(dict) THEN Throw
    ELSE IF K_files \notin DOMAIN dict.d THEN Throw
    ELSE IF ~isList(dict.d[K_files]) THEN Throw
    ELSE FilesFrom(dict.d[K_files].l, <<>>)

(* int64_t division and remainder: the quotient is truncated toward zero   *)
(* and the remainder has the sign of the dividend.                         *)
Abs(n) == IF n < 0 THEN 0 - n ELSE n
TruncDiv(a, b) ==
    IF (a < 0) = (b < 0) THEN Abs(a) \div Abs(b) ELSE 0 - (Abs(a) \div Abs(b))
TruncMod(a, b) == a - b * TruncDiv(a, b)

(* The sum of the file sizes.                                              *)
RECURSIVE SumSizes(_)
SumSizes(files) == IF files = <<>> THEN 0 ELSE Head(files)[2] + SumSizes(Tail(files))

(* computeSHA1(data): the digest is kept as the bytes it is the digest of; *)
(* two digests are equal exactly when those bytes are.                     *)
computeSHA1(data) == [sha1_of |-> data]

(* The process is killed by a signal (division by zero).                   *)
Killed == [ok |-> FALSE, diverges |-> FALSE, killed |-> TRUE]

(* The outcomes of the division by pieceLength.  Dividing by zero is       *)
(* undefined: the process is killed, or the division yields any value.     *)
NumPieces(totalFileSize, pieceLength) ==
    IF pieceLength = 0
    THEN { [n |-> 0, killed |-> TRUE] } \cup { [n |-> n, killed |-> FALSE] : n \in -1..1 }
    ELSE { [n |-> TruncDiv(totalFileSize, pieceLength)
                      + (IF TruncMod(totalFileSize, pieceLength) > 0 THEN 1 ELSE 0),
            killed |-> FALSE] }

(* TorrentFileParser::parse() on a file: the outcomes it can have.  file   *)
(* is [exists, data].                                                      *)
TorrentFileParser_parse(file) ==
    IF ~file.exists THEN {Throw}
    ELSE LET parsedData == parse(file.data)
         IN  IF ~parsedData.ok THEN {parsedData}
             ELSE IF ~isDict(parsedData.v) THEN {Throw}
             ELSE IF ~HasDict(parsedData.v, K_info) THEN {Throw}
             ELSE LET rootDict == parsedData.v
                      infoDict == rootDict.d[K_info]
                      announce == extractString(rootDict, K_announce)
                      comment == extractString(rootDict, K_comment)
                      creationDate == extractInt(rootDict, K_creation_date)
                      name == extractString(infoDict, K_name)
                      pieceLength == extractInt(infoDict, K_piece_length)
                      pieces == extractPieces(infoDict)
                      single == K_length \in DOMAIN infoDict.d
                      length == extractInt(infoDict, K_length)
                      multi == extractFiles(infoDict)
                  IN  IF ~announce.ok \/ ~comment.ok \/ ~creationDate.ok THEN {Throw}
                      ELSE IF ~name.ok \/ ~pieceLength.ok \/ ~pieces.ok THEN {Throw}
                      ELSE IF single /\ ~length.ok THEN {Throw}
                      ELSE IF ~single /\ ~multi.ok THEN {Throw}
                      ELSE LET files == IF single THEN << <<name.v, length.v>> >> ELSE multi.v
                               totalFileSize == IF single THEN length.v ELSE SumSizes(files)
                           IN  { IF q.killed THEN Killed
                                 ELSE Extracted([files |-> files,
                                                 pieceLength |-> pieceLength.v,
                                                 announce |-> announce.v,
                                                 comment |-> comment.v,
                                                 creationDate |-> creationDate.v,
                                                 name |-> name.v,
                                                 pieces |-> pieces.v,
                                                 numPieces |-> q.n,
                                                 infoHash |-> computeSHA1(encode(infoDict))]) :
                                 q \in NumPieces(totalFileSize, pieceLength.v) }

(***************************************************************************)
(* Metainfo files handed to the reader.                                    *)
(***************************************************************************)
OnePiece == [i \in 1..20 |-> 97]

(* info dictionaries: a single-file and a multi-file one that are valid,   *)
(* and ones with a field missing, mistyped, zero or negative.              *)
SingleFileInfo ==
    DictOf(<< <<K_length, BInt(10)>>, <<K_name, BStr(<<120>>)>>,
              <<K_piece_length, BInt(4)>>, <<K_pieces, BStr(OnePiece \o OnePiece \o <<98>>)>> >>)

FileEntry(path, length) == BDict(DictOf(<< <<K_length, BInt(length)>>, <<K_path, BList(path)>> >>))

MultiFileInfo ==
    DictOf(<< <<K_files, BList(<< FileEntry(<<BStr(<<97>>), BStr(<<98>>)>>, 3),
                                  FileEntry(<<BStr(<<99>>)>>, 6) >>)>>,
              <<K_name, BStr(<<120>>)>>,
              <<K_piece_length, BInt(4)>>, <<K_pieces, BStr(OnePiece)>> >>)

ValidInfos == { BDict(SingleFileInfo), BDict(MultiFileInfo) }

(* d without the key k.                                                    *)
DictDrop(d, k) == [j \in (DOMAIN d) \ {k} |-> d[j]]

BrokenInfos ==
    { BDict(DictDrop(SingleFileInfo, K_piece_length)),
      BDict(DictPut(SingleFileInfo, K_piece_length, BInt(-4))),
      BDict(DictPut(SingleFileInfo, K_piece_length, BStr(<<52>>))),
      BDict(DictDrop(SingleFileInfo, K_pieces)),
      BDict(DictDrop(SingleFileInfo, K_length)),
      BDict(DictDrop(SingleFileInfo, K_name)),
      BDict(DictPut(MultiFileInfo, K_files, BList(<< FileEntry(<<BInt(1)>>, 3) >>))),
      BDict(DictPut(MultiFileInfo, K_files, BList(<< BDict(DictOf(<< <<K_length, BInt(3)>> >>)) >>))),
      BStr(<<120>>) }

(* An optional entry of a dictionary: absent, or present with a value.     *)
Absent == [tag |-> "absent"]
WithEntry(d, k, v) == IF v = Absent THEN d ELSE DictPut(d, k, v)

TorrentFiles ==
    { [data |-> encode(BDict(WithEntry(WithEntry(WithEntry(WithEntry(EmptyDict,
                    K_info, info), K_announce, announce), K_comment, comment),
                    K_creation_date, creationDate))),
       exists |-> TRUE] :
          info \in ValidInfos \cup BrokenInfos \cup {Absent},
          announce \in {Absent, BStr(<<117>>), BInt(5)},
          comment \in {Absent, BStr(<<99>>)},
          creationDate \in {Absent, BInt(5), BStr(<<53>>)} }
        \cup { [data |-> <<>>, exists |-> FALSE],
               [data |-> <<>>, exists |-> TRUE],
               [data |-> encode(BInt(5)), exists |-> TRUE],
               [data |-> <<CH_d, CH_minus, 52, CH_colon>>, exists |-> TRUE] }

(* Every file with every outcome of TorrentFileParser::parse on it.        *)
TorrentOutcomes ==
    UNION { { [result |-> result, file |-> file] :
                  result \in TorrentFileParser_parse(file) } : file \in TorrentFiles }

(* TorrentFileParser(filePath).parse() on file with the outcome result.    *)
TorrentParseCall(file, result) ==
    /\ codec = <<>>
    /\ codec' = << [in |-> file, op |-> "torrent", out |-> result] >>
    /\ UNCHANGED <<my_node_id_, routing_table_, bootstrap_nodes_, peer_store_,
                   pc, seed_idx, nodes, recv, sent, caught, acked, closest,
                   rpc, open_sockets, sock_>>

NextTorrent == \E o \in TorrentOutcomes : TorrentParseCall(o.file, o.result)

SpecTorrent == Init /\ [][NextTorrent]_vars

(***************************************************************************)
(* Properties.                                                             *)
(***************************************************************************)

(* How often node n occurs in a list, and in the whole routing table.      *)
RECURSIVE CountIn(_, _)
CountIn(list, n) ==
    IF list = <<>> THEN 0
    ELSE (IF Head(list) = n THEN 1 ELSE 0) + CountIn(Tail(list), n)

Copies(table, n) == CountIn(GatherNodes(table), n)

(* n is the last entry of some bucket.                                     *)
AtTail(table, n) ==
    \E i \in 1..Len(table) : table[i] # <<>> /\ table[i][Len(table[i])] = n

(* This step is a call of add_to_routing_table(Head(nodes)).               *)
InsertStep == pc = "bootstrap" /\ nodes # <<>> /\ nodes' = Tail(nodes)

(* C1: after any sequence of add_to_routing_table calls, for any local ID  *)
(* and any outcome of the eviction pings, every bucket holds at most K     *)
(* nodes.                                                                  *)
C1_BucketAtMostK ==
    \A i \in 1..Len(routing_table_) : Len(routing_table_[i]) <= K

(* C1 witness: local ID 0, bucket 0 was filled with the nodes 2..16 and    *)
(* the ninth node 18 took the place of the head, whose ping failed.        *)
C1_Witness ==
    /\ my_node_id_ = MkId(0, 0)
    /\ routing_table_[1] = << Nd(18, 6881), Nd(4, 6881), Nd(6, 6881), Nd(8, 6881),
                              Nd(10, 6881), Nd(12, 6881), Nd(14, 6881), Nd(16, 6881) >>

(* C2: inserting a node that is in the table (so it was inserted before)   *)
(* leaves exactly one copy of it in the whole table, at the tail of its    *)
(* bucket.                                                                 *)
C2_ReinsertLeavesOneCopyAtTail ==
    [][ (InsertStep /\ Copies(routing_table_, Head(nodes)) > 0)
            => ( /\ Copies(routing_table_', Head(nodes)) = 1
                 /\ AtTail(routing_table_', Head(nodes)) ) ]_vars

(* The distance order of find_closest_nodes: a is strictly closer to the   *)
(* target than b, distances compared as big-endian 160-bit numbers.        *)
Closer(a, b, target_id) ==
    LexLess(xor_distance(a.id, target_id), xor_distance(b.id, target_id))

(* C3: find_closest_nodes(target, k) returns exactly min(k, N) entries of  *)
(* the table, N the number of entries in all buckets, in non-decreasing    *)
(* distance to target, and no entry left out is strictly closer to target  *)
(* than a returned one.                                                    *)
C3_ClosestSortedAndComplete ==
    closest.called =>
        LET all == GatherNodes(routing_table_)
            res == closest.result
        IN  /\ Len(res) = Min(closest.k, Len(all))
            /\ \A i \in 1..Len(res) : CountIn(res, res[i]) <= CountIn(all, res[i])
            /\ \A i \in 1..(Len(res) - 1) : ~Closer(res[i + 1], res[i], closest.target)
            /\ \A j \in 1..Len(all) :
                   CountIn(res, all[j]) < CountIn(all, all[j])
                       => \A i \in 1..Len(res) : ~Closer(all[j], res[i], closest.target)

(* C3 witness: a call that had to cut the list (more entries than k) and   *)
(* to reorder it (the table order is not the distance order).              *)
C3_Witness ==
    /\ closest.called
    /\ closest.k = 2
    /\ closest.target = MkId(0, 0)
    /\ closest.result = << NdLow(1), NdLow(2) >>
    /\ GatherNodes(routing_table_) = << NdLow(3), NdLow(1), NdLow(2) >>

(* C4: the list returned by find_closest_nodes contains no node twice.     *)
C4_ClosestHasNoDuplicates ==
    closest.called =>
        \A i, j \in 1..Len(closest.result) :
            i # j => closest.result[i] # closest.result[j]

(***************************************************************************)
(* The serve loop.  In a state with pc = "handled" the datagram in recv    *)
(* has just been handled and sent holds what was handed to sendto.         *)
(***************************************************************************)

(* The query in recv is of type q.                                         *)
Handled(q) == pc = "handled" /\ IsQuery(recv.message, q)

(* The string argument a[key] of the query in recv, when it has one.       *)
HasArg(key) == HasDict(recv.message.v, S_a) /\ HasStr(recv.message.v.d[S_a], key)
Arg(key) == recv.message.v.d[S_a].d[key].s

(* The datagram decoded the way its receiver decodes it.                   *)
Decoded(datagram) == parse(datagram.data)

(* The dictionary r of a decoded response.                                 *)
IsResponse(m) == m.ok /\ HasStr(m.v, S_t) /\ HasStr(m.v, S_y) /\ HasDict(m.v, S_r)
RDict(m) == m.v.d[S_r]

(* The compact string is made of whole 6-byte records, one of which is the *)
(* address ip (4 bytes) and port (2 bytes, network order).                 *)
HasPeerRecord(compact, ip, port) ==
    /\ Len(compact) % PEER_RECORD_SIZE = 0
    /\ \E i \in 0..(Len(compact) \div PEER_RECORD_SIZE - 1) :
           SubSeq(compact, i * PEER_RECORD_SIZE + 1, (i + 1) * PEER_RECORD_SIZE) = ip \o port

(* C5: once an announce_peer for infohash H from endpoint E has been       *)
(* handled and answered, every later get_peers for H (carrying a           *)
(* transaction ID to answer to) is answered, and by a response whose       *)
(* `values` contains the 6-byte record of E.                               *)
C5_AnnouncedPeerIsReturned ==
    (Handled(S_get_peers) /\ HasArg(S_info_hash)) =>
        \A a \in acked :
            a.infohash = Arg(S_info_hash) =>
                /\ HasStr(recv.message.v, S_t) => sent # <<>>
                /\ \A i \in 1..Len(sent) :
                       LET m == Decoded(sent[i])
                       IN  /\ IsResponse(m)
                           /\ HasStr(RDict(m), S_values)
                           /\ HasPeerRecord(RDict(m).d[S_values].s, a.ip, a.port)

(* C5 witness: H1 was announced from 9.9.9.9:1234 and answered, another    *)
(* endpoint announced it too, and a get_peers for H1 from the second       *)
(* address is answered.                                                    *)
C5_Witness ==
    /\ Handled(S_get_peers) /\ HasArg(S_info_hash) /\ Arg(S_info_hash) = H1
    /\ [port |-> <<4, 210>>, ip |-> <<9, 9, 9, 9>>, infohash |-> H1] \in acked
    /\ recv.ip = <<10, 0, 200, 1>>
    /\ H1 \in DOMAIN peer_store_ /\ Len(peer_store_[H1]) = 2
    /\ sent # <<>>

(* The nodes of a compact node string are the min(k, N) table entries      *)
(* closest to target, in non-decreasing distance.                          *)
IsClosestList(compact, table, target_id, k) ==
    LET all == GatherNodes(table)
        res == parse_compact_nodes(compact)
    IN  /\ Len(compact) = NODE_RECORD_SIZE * Min(k, Len(all))
        /\ \A i \in 1..Len(res) : CountIn(res, res[i]) <= CountIn(all, res[i])
        /\ \A i \in 1..(Len(res) - 1) : ~Closer(res[i + 1], res[i], target_id)
        /\ \A j \in 1..Len(all) :
               CountIn(res, all[j]) < CountIn(all, all[j])
                   => \A i \in 1..Len(res) : ~Closer(all[j], res[i], target_id)

(* The compact peer string lists exactly the endpoints of peers, in order. *)
IsPeerList(compact, peers) ==
    /\ Len(compact) = PEER_RECORD_SIZE * Len(peers)
    /\ \A i \in 1..Len(peers) :
           LET o == (i - 1) * PEER_RECORD_SIZE
           IN  /\ inet_ntop(SubSeq(compact, o + 1, o + 4)) = peers[i].ip
               /\ ntohs(SubSeq(compact, o + 5, o + 6)) = peers[i].port

(* C6: a get_peers reply carries `values`, the compact peer list of        *)
(* peer_store[info_hash], and no `nodes` exactly when the peer store has   *)
(* the key info_hash; otherwise it carries `nodes`, the compact list of    *)
(* the K closest nodes in ascending distance to the (20-byte) info_hash,   *)
(* and no `values`.                                                        *)
C6_GetPeersValuesOrNodes ==
    Handled(S_get_peers) =>
        \A i \in 1..Len(sent) :
            LET m == Decoded(sent[i])
                h == Arg(S_info_hash)
            IN  /\ IsResponse(m)
                /\ HasArg(S_info_hash)
                /\ IF h \in DOMAIN peer_store_
                   THEN /\ HasStr(RDict(m), S_values)
                        /\ ~HasKey(RDict(m), S_nodes)
                        /\ IsPeerList(RDict(m).d[S_values].s, peer_store_[h])
                   ELSE /\ HasStr(RDict(m), S_nodes)
                        /\ ~HasKey(RDict(m), S_values)
                        /\ Len(h) = NODE_ID_SIZE
                               => IsClosestList(RDict(m).d[S_nodes].s, routing_table_, h, K)

(* C6 witness: with three nodes in the table and a peer stored for H1 but  *)
(* none for H2, a get_peers for H2 is answered with the nodes.             *)
C6_Witness ==
    /\ Handled(S_get_peers) /\ HasArg(S_info_hash) /\ Arg(S_info_hash) = H2
    /\ H1 \in DOMAIN peer_store_
    /\ GatherNodes(routing_table_) = << NdLow(3), NdLow(1), NdLow(2) >>
    /\ sent # <<>>

(* C7: the reply to a find_node for the (20-byte) target T carries in      *)
(* `nodes` the compact encoding of exactly the min(8, N) table nodes       *)
(* closest to T, in ascending distance order.                              *)
C7_FindNodeRepliesClosest ==
    (Handled(S_find_node) /\ HasArg(S_target) /\ Len(Arg(S_target)) = NODE_ID_SIZE) =>
        /\ HasStr(recv.message.v, S_t) => sent # <<>>
        /\ \A i \in 1..Len(sent) :
               LET m == Decoded(sent[i])
               IN  /\ IsResponse(m)
                   /\ HasStr(RDict(m), S_nodes)
                   /\ IsClosestList(RDict(m).d[S_nodes].s, routing_table_, Arg(S_target), K)

(* C7 witness: the table holds nine nodes, A, B, C at distances 1, 2, 3    *)
(* from the target among them, and the reply names the eight closest,      *)
(* A then B then C first.                                                  *)
C7_Witness ==
    /\ Handled(S_find_node) /\ HasArg(S_target) /\ Arg(S_target) = MkId(0, 0)
    /\ Len(GatherNodes(routing_table_)) = K + 1
    /\ Len(sent) = 1
    /\ parse_compact_nodes(RDict(Decoded(sent[1])).d[S_nodes].s)
           = << NdLow(1), NdLow(2), NdLow(3), NdLow(4), NdLow(5), NdLow(6), NdLow(7),
                NdLow(8) >>

(* This step handles an announce_peer that names an infohash.              *)
AnnounceStep ==
    /\ pc = "run" /\ pc' = "handled"
    /\ IsQuery(recv'.message, S_announce_peer)
    /\ HasDict(recv'.message.v, S_a) /\ HasStr(recv'.message.v.d[S_a], S_info_hash)

(* C8: handling an announce_peer for infohash H from (ip, port) appends    *)
(* exactly the endpoint (ip, port) as the last element of peer_store[H],   *)
(* creating the key if absent and whether or not the endpoint is already   *)
(* listed; the lists of all other keys are unchanged.                      *)
C8_AnnounceAppendsEndpoint ==
    [][ AnnounceStep =>
          LET h == recv'.message.v.d[S_a].d[S_info_hash].s
              before == IF h \in DOMAIN peer_store_ THEN peer_store_[h] ELSE <<>>
          IN  /\ h \in DOMAIN peer_store_'
              /\ Len(peer_store_'[h]) = Len(before) + 1
              /\ SubSeq(peer_store_'[h], 1, Len(before)) = before
              /\ inet_pton(peer_store_'[h][Len(before) + 1].ip).bytes = recv'.ip
              /\ htons(peer_store_'[h][Len(before) + 1].port) = recv'.port
              /\ DOMAIN peer_store_' = (DOMAIN peer_store_) \cup {h}
              /\ \A g \in DOMAIN peer_store_ : g # h => peer_store_'[g] = peer_store_[g]
      ]_vars

(* C8 witness: the same endpoint announced H1 twice and is listed twice.   *)
C8_Witness ==
    /\ Handled(S_announce_peer)
    /\ H1 \in DOMAIN peer_store_ /\ Len(peer_store_[H1]) = 2
    /\ peer_store_[H1][1].ip = peer_store_[H1][2].ip
    /\ peer_store_[H1][1].port = peer_store_[H1][2].port
    /\ inet_pton(peer_store_[H1][2].ip).bytes = recv.ip

(* C9: every datagram sent from the serve loop is a reply to the query     *)
(* just received, one of ping, find_node, get_peers and announce_peer: it  *)
(* carries the query's `t`, `y` = "r" and `r.id` = the local node ID, and  *)
(* is addressed to the source address and port of the query.               *)
C9_SentIsReplyToQuery ==
    /\ pc # "handled" => sent = <<>>
    /\ pc = "handled" =>
           \A i \in 1..Len(sent) :
               LET m == Decoded(sent[i])
               IN  /\ \E q \in {S_ping, S_find_node, S_get_peers, S_announce_peer} :
                          IsQuery(recv.message, q)
                   /\ HasStr(recv.message.v, S_t)
                   /\ IsResponse(m)
                   /\ m.v.d[S_t] = recv.message.v.d[S_t]
                   /\ m.v.d[S_y].s = S_r
                   /\ HasStr(RDict(m), S_id)
                   /\ RDict(m).d[S_id].s = my_node_id_
                   /\ sent[i].ip = recv.ip
                   /\ sent[i].port = recv.port

(* C9 witness: an announce_peer from 10.0.200.1:6881 was answered.         *)
C9_Witness ==
    /\ Handled(S_announce_peer)
    /\ recv.ip = <<10, 0, 200, 1>>
    /\ Len(sent) = 1

(* C10: when handling a datagram ends in a catch block (a decode error, a  *)
(* missing field or a field of the wrong shape), no reply is sent and the  *)
(* routing table and the peer store are as they were before the datagram.  *)
C10_FailedDatagramIsDropped ==
    [][ (pc = "run" /\ pc' = "handled" /\ caught')
            => ( /\ sent' = <<>>
                 /\ routing_table_' = routing_table_
                 /\ peer_store_' = peer_store_ ) ]_vars

(* C11: after receiving any datagram, well formed or not, the engine       *)
(* eventually is back at the receive call of the serve loop.               *)
C11_ServeLoopReturnsToReceive ==
    [](pc \in {"handled", "hung"} => <>(pc = "run"))

(***************************************************************************)
(* Outbound RPCs.                                                          *)
(***************************************************************************)

(* The last outbound RPC was send_find_node_request.                       *)
FindNodeCalled == rpc.called /\ rpc.op = "find_node"

(* The bytes the reply of the last find_node RPC put in the buffer.        *)
ReplyBytes == Received(rpc.rx.data)

(* The reply decodes to a message with y = r whose r is a dictionary with  *)
(* a byte-string under nodes.                                              *)
ReplyCarriesNodes ==
    /\ rpc.rx.kind = "datagram"
    /\ parse(ReplyBytes).ok
    /\ HasStr(parse(ReplyBytes).v, S_y)
    /\ parse(ReplyBytes).v.d[S_y].s = S_r
    /\ HasDict(parse(ReplyBytes).v, S_r)
    /\ HasStr(parse(ReplyBytes).v.d[S_r], S_nodes)

(* The receive timed out, or the reply cannot be decoded, or it is an      *)
(* e-class message, or an r-class message without a dictionary r holding   *)
(* a byte-string nodes.                                                    *)
ReplyIsFailure ==
    \/ rpc.rx.kind = "recvfail"
    \/ /\ rpc.rx.kind = "datagram"
       /\ \/ ~parse(ReplyBytes).ok
          \/ /\ HasStr(parse(ReplyBytes).v, S_y)
             /\ parse(ReplyBytes).v.d[S_y].s \in {S_e, S_r}
             /\ ~ReplyCarriesNodes

(* C12: send_find_node_request returns an empty list when the receive      *)
(* times out, the reply cannot be decoded, is an e-class message or an     *)
(* r-class message whose r or r.nodes is missing or mistyped; it returns   *)
(* nodes only for a decodable r-class reply with a byte-string r.nodes.    *)
C12_FindNodeEmptyOnFailure ==
    FindNodeCalled =>
        /\ ReplyIsFailure => rpc.returned /\ rpc.nodes = <<>>
        /\ rpc.nodes # <<>> => ReplyCarriesNodes

(* C13: when send_find_node_request or ping has returned, by whatever      *)
(* path, as many outbound sockets are open as before the call, and the     *)
(* listening socket is open.                                               *)
C13_ReturnedRpcLeavesNoSocket ==
    rpc.called /\ rpc.returned =>
        open_sockets = rpc.open_before /\ sock_ = "open"

(* send_find_node_request has returned after a failed sendto.              *)
C13_Witness ==
    /\ FindNodeCalled
    /\ rpc.rx.kind = "sendfail"
    /\ rpc.returned
    /\ open_sockets = rpc.open_before

(***************************************************************************)
(* bootstrap().                                                            *)
(***************************************************************************)

(* bootstrap() has called send_find_node_request for the i-th seed.        *)
QueryIssued(i) == seed_idx > i \/ (seed_idx = i /\ pc = "hung")

(* A step of bootstrap() that is a call of send_find_node_request: it is   *)
(* made when every node of the previous reply has been passed on, goes to  *)
(* the next seed in the order of bootstrap_nodes_ with the local ID as     *)
(* target, inserts nothing itself, and hands over the nodes it returns.    *)
QueryStepInOrder ==
    (seed_idx' # seed_idx \/ pc' = "hung") =>
        /\ nodes = <<>>
        /\ rpc'.op = "find_node"
        /\ rpc'.to = bootstrap_nodes_[seed_idx]
        /\ rpc'.target = my_node_id_
        /\ routing_table_' = routing_table_
        /\ pc' # "hung" => seed_idx' = seed_idx + 1 /\ nodes' = rpc'.nodes

(* A step that changes the routing table passes on the first node of the   *)
(* reply not yet passed on, before the next seed is contacted.             *)
InsertStepInOrder ==
    routing_table_' # routing_table_ =>
        nodes # <<>> /\ nodes' = Tail(nodes) /\ seed_idx' = seed_idx

(* C14: bootstrap() queries every configured seed once, in the order the   *)
(* seeds were added, with the local ID as target; it passes every node of  *)
(* a successful reply, in reply order, to add_to_routing_table before it   *)
(* contacts the next seed; a failed query inserts nothing.                 *)
C14_BootstrapQueriesEverySeedInOrder ==
    /\ [][pc = "bootstrap" =>
            /\ QueryStepInOrder
            /\ InsertStepInOrder
            /\ pc' = "done" => nodes = <<>> /\ seed_idx = Len(bootstrap_nodes_) + 1]_vars
    /\ [](FindNodeCalled /\ ~ReplyCarriesNodes => rpc.nodes = <<>>)
    /\ \A i \in 1..MaxSeeds :
           [](pc = "bootstrap" /\ i <= Len(bootstrap_nodes_) => <>QueryIssued(i))

(***************************************************************************)
(* The codec.                                                              *)
(***************************************************************************)

(* parse was called on the bytes encode returned for a value.              *)
EncodedThenParsed == Len(codec) = 2 /\ codec[1].op = "encode"

(* encode was called on the value parse returned for some bytes.           *)
ParsedThenEncoded == Len(codec) = 2 /\ codec[1].op = "parse"

(* C15: for every value v of integers, byte-strings, lists and             *)
(* dictionaries, parse(encode(v)) returns v.                               *)
C15_ParseOfEncodeIsValue ==
    EncodedThenParsed => codec[2].out.ok /\ codec[2].out.v = codec[1].in

(* The round trip of {a: {a: -1}, b: [7]}.                                 *)
C15_Witness ==
    /\ EncodedThenParsed
    /\ codec[1].in = BDict(DictPut(DictPut(EmptyDict, <<98>>, BList(<<BInt(7)>>)), <<97>>,
                                   BDict(DictPut(EmptyDict, <<97>>, BInt(-1)))))
    /\ codec[2].out.ok

(* Well-formed inputs whose dictionary keys are sorted and distinct:       *)
(* `i0e`, `i7e`, `i-42e`, `i2147483647e`, `0:`, `4:spam`, `1:a`, `le`,     *)
(* `li1ei2e3:abce`, `de`, `d1:ai1e1:bi2ee`, `d1:Bi1e1:ai2ee`,              *)
(* `d1:ai1e2:aai2ee`, `d6:lengthi10e4:name1:x12:piece                      *)
(* lengthi4e6:pieces0:e`.                                                  *)
SortedInputs ==
    { <<105, 48, 101>>,
      <<105, 55, 101>>,
      <<105, 45, 52, 50, 101>>,
      <<105, 50, 49, 52, 55, 52, 56, 51, 54, 52, 55, 101>>,
      <<48, 58>>,
      <<52, 58, 115, 112, 97, 109>>,
      <<49, 58, 97>>,
      <<108, 101>>,
      <<108, 105, 49, 101, 105, 50, 101, 51, 58, 97, 98, 99, 101>>,
      <<100, 101>>,
      <<100, 49, 58, 97, 105, 49, 101, 49, 58, 98, 105, 50, 101, 101>>,
      <<100, 49, 58, 66, 105, 49, 101, 49, 58, 97, 105, 50, 101, 101>>,
      <<100, 49, 58, 97, 105, 49, 101, 50, 58, 97, 97, 105, 50, 101, 101>>,
      <<100, 54, 58, 108, 101, 110, 103, 116, 104, 105, 49, 48, 101, 52, 58, 110, 97, 109, 101, 49, 58, 120, 49, 50, 58, 112, 105, 101, 99, 101, 32, 108, 101, 110, 103, 116, 104, 105, 52, 101, 54, 58, 112, 105, 101, 99, 101, 115, 48, 58, 101>> }

(* Well-formed inputs with a dictionary whose keys are not in order, each  *)
(* with the same bytes after the pairs of every dictionary are put in      *)
(* ascending key order: `d1:bi2e1:ai1ee` and `d1:ai1e1:bi2ee`,             *)
(* `d1:b0:1:ali1eee` and `d1:ali1ee1:b0:e`, `ld1:bi1e1:ai2eee` and         *)
(* `ld1:ai2e1:bi1eee`, `d1:xd1:b1:b1:a1:aee` and `d1:xd1:a1:a1:b1:bee`.    *)
UnsortedInputs ==
    { << <<100, 49, 58, 98, 105, 50, 101, 49, 58, 97, 105, 49, 101, 101>>,
         <<100, 49, 58, 97, 105, 49, 101, 49, 58, 98, 105, 50, 101, 101>> >>,
      << <<100, 49, 58, 98, 48, 58, 49, 58, 97, 108, 105, 49, 101, 101, 101>>,
         <<100, 49, 58, 97, 108, 105, 49, 101, 101, 49, 58, 98, 48, 58, 101>> >>,
      << <<108, 100, 49, 58, 98, 105, 49, 101, 49, 58, 97, 105, 50, 101, 101, 101>>,
         <<108, 100, 49, 58, 97, 105, 50, 101, 49, 58, 98, 105, 49, 101, 101, 101>> >>,
      << <<100, 49, 58, 120, 100, 49, 58, 98, 49, 58, 98, 49, 58, 97, 49, 58, 97, 101, 101>>,
         <<100, 49, 58, 120, 100, 49, 58, 97, 49, 58, 97, 49, 58, 98, 49, 58, 98, 101, 101>> >> }

(* C16: encode(parse(b)) is b with the pairs of every dictionary in        *)
(* ascending key order, for well-formed b (canonical integers and          *)
(* lengths, distinct keys in every dictionary); it is b itself when the    *)
(* keys of b are sorted already.                                           *)
C16_EncodeOfParseIsSortedInput ==
    /\ Len(codec) >= 1 /\ codec[1].op = "parse"
            /\ codec[1].in \in SortedInputs \cup { u[1] : u \in UnsortedInputs }
        => codec[1].out.ok
    /\ ParsedThenEncoded =>
        /\ codec[1].in \in SortedInputs => codec[2].out = codec[1].in
        /\ \A u \in UnsortedInputs : codec[1].in = u[1] => codec[2].out = u[2]

(* `d1:xd1:b1:b1:a1:aee` has been parsed and encoded again.                 *)
C16_Witness ==
    /\ ParsedThenEncoded
    /\ codec[1].in = <<100, 49, 58, 120, 100, 49, 58, 98, 49, 58, 98, 49, 58, 97, 49, 58, 97, 101, 101>>
    /\ codec[2].out = <<100, 49, 58, 120, 100, 49, 58, 97, 49, 58, 97, 49, 58, 98, 49, 58, 98, 101, 101>>

(* parse was called on bytes of the caller.                               *)
ParsedInput == Len(codec) >= 1 /\ codec[1].op = "parse"

(* Integers that are not canonical: `i01e`, `i00e`, `i-0e`, `i-01e`, `ie`, *)
(* `i-e`, `iXe`, `i+5e`, `i 5e`, `i5xe`.                                   *)
NonCanonicalIntegers ==
    { <<105, 48, 49, 101>>,
      <<105, 48, 48, 101>>,
      <<105, 45, 48, 101>>,
      <<105, 45, 48, 49, 101>>,
      <<105, 101>>,
      <<105, 45, 101>>,
      <<105, 88, 101>>,
      <<105, 43, 53, 101>>,
      <<105, 32, 53, 101>>,
      <<105, 53, 120, 101>> }

(* C17: parse raises an error for every integer that is not canonical: a   *)
(* leading zero, negative zero, no digits, a body that is not a number.    *)
C17_NonCanonicalIntegerRejected ==
    ParsedInput /\ codec[1].in \in NonCanonicalIntegers => ~codec[1].out.ok

(* Inputs that are no bencoded value: the empty input, a byte-string       *)
(* shorter than its length, unterminated lists and dictionaries, a key     *)
(* that is no byte-string, first bytes that start no value: ``, `2:a`,     *)
(* `li1e`, `l`, `d1:ai1e`, `d`, `d1:a`, `di1ei2ee`, `x`, `e`, `:`, `-`,    *)
(* `-1:`, ` i1e`, `\0`, `I1e`.                                             *)
MalformedInputs ==
    { <<>>,
      <<50, 58, 97>>,
      <<108, 105, 49, 101>>,
      <<108>>,
      <<100, 49, 58, 97, 105, 49, 101>>,
      <<100>>,
      <<100, 49, 58, 97>>,
      <<100, 105, 49, 101, 105, 50, 101, 101>>,
      <<120>>,
      <<101>>,
      <<58>>,
      <<45>>,
      <<45, 49, 58>>,
      <<32, 105, 49, 101>>,
      <<0>>,
      <<73, 49, 101>> }

(* The bytes a bencoded value can start with.                              *)
StartsValue(c) == c \in {CH_i, CH_l, CH_d} \/ IsDigit(c)

(* C18: parse raises an error for the empty input, a byte-string whose     *)
(* length exceeds the input, an unterminated list or dictionary, a         *)
(* dictionary key that is no byte-string, and every input whose first      *)
(* byte is not i, l, d or a digit.                                         *)
C18_MalformedInputRejected ==
    ParsedInput =>
        /\ codec[1].in \in MalformedInputs =>
                ~codec[1].out.ok /\ ~codec[1].out.diverges
        /\ codec[1].in # <<>> /\ ~StartsValue(codec[1].in[1]) =>
                ~codec[1].out.ok /\ ~codec[1].out.diverges

(* parse has raised an error for `2:a`.                                     *)
C18_Witness ==
    /\ ParsedInput
    /\ codec[1].in = <<50, 58, 97>>
    /\ ~codec[1].out.ok
    /\ ~codec[1].out.diverges

(***************************************************************************)
(* Bucket placement.                                                       *)
(***************************************************************************)

(* The places of the routing table: bucket number and position in it.      *)
Places ==
    { p \in (1..Len(routing_table_)) \X (1..K) : p[2] <= Len(routing_table_[p[1]]) }

StoredAt(p) == routing_table_[p[1]][p[2]]

(* C19: the bucket of a node depends only on its ID and the local ID: two  *)
(* inserted nodes with identical IDs are in the same bucket, whatever was  *)
(* inserted between them.                                                  *)
C19_SameIdSameBucket ==
    \A p, q \in Places : StoredAt(p).id = StoredAt(q).id => p[1] = q[1]

(* C20: of two stored nodes, the one whose XOR distance to the local ID    *)
(* (a big-endian 160-bit number) is smaller is never in a higher-indexed   *)
(* bucket.                                                                 *)
C20_CloserNodeNotInHigherBucket ==
    \A p, q \in Places :
        Closer(StoredAt(p), StoredAt(q), my_node_id_) => p[1] <= q[1]

(***************************************************************************)
(* The metainfo reader.                                                    *)
(***************************************************************************)

(* TorrentFileParser::parse was called on a file.                          *)
TorrentParsed == Len(codec) = 1 /\ codec[1].op = "torrent"

(* The root dictionary of the file read: it has a valid info dictionary,   *)
(* and its optional entries other than key, where present, have the type   *)
(* the reader expects.                                                     *)
RootOf(file) == parse(file.data).v

ValidExcept(file, key) ==
    /\ file.exists
    /\ parse(file.data).ok
    /\ HasDict(RootOf(file), K_info)
    /\ RootOf(file).d[K_info] \in ValidInfos
    /\ \A k \in {K_announce, K_comment} \ {key} :
           HasKey(RootOf(file), k) => isString(RootOf(file).d[k])
    /\ K_creation_date # key /\ HasKey(RootOf(file), K_creation_date)
           => isInt(RootOf(file).d[K_creation_date])

(* C21: a metainfo dictionary with a valid info dictionary parses when     *)
(* the announce key is missing, with an empty announce in the descriptor,  *)
(* and when the creation date key is missing, with creationDate = 0.       *)
C21_MissingFieldsGetDefaults ==
    TorrentParsed =>
        /\ ValidExcept(codec[1].in, K_announce) /\ ~HasKey(RootOf(codec[1].in), K_announce)
               => codec[1].out.ok /\ codec[1].out.v.announce = <<>>
        /\ ValidExcept(codec[1].in, K_creation_date)
                 /\ ~HasKey(RootOf(codec[1].in), K_creation_date)
               => codec[1].out.ok /\ codec[1].out.v.creationDate = 0

(* A multi-file metainfo with a comment only has been parsed.              *)
C21_Witness ==
    /\ TorrentParsed
    /\ codec[1].in.data = encode(BDict(DictOf(<< <<K_info, BDict(MultiFileInfo)>>,
                                                 <<K_comment, BStr(<<99>>)>> >>)))
    /\ codec[1].out.ok
    /\ codec[1].out.v.announce = <<>>
    /\ codec[1].out.v.creationDate = 0
    /\ codec[1].out.v.files = << << <<97, 47, 98>>, 3 >>, << <<99>>, 6 >> >>

(***************************************************************************)
(* Eviction.                                                               *)
(***************************************************************************)

(* The datagram of a node that answers the eviction ping: the reply of     *)
(* class r to the query with transaction ID "pp".                          *)
Pong == Datagram(PongReply(S_pp))

(* This step is add_to_routing_table(Head(nodes)) with the scan stopping   *)
(* at bucket_index, where the bucket is full and does not hold the node:   *)
(* the step pings the head of the bucket and rpc' records the ping.        *)
EvictionStep(bucket_index) ==
    /\ InsertStep
    /\ bucket_index \in BucketIndexes(xor_distance(my_node_id_, Head(nodes).id),
                                      Len(routing_table_))
    /\ bucket_index < Len(routing_table_)
    /\ Len(routing_table_[bucket_index + 1]) = K
    /\ FindInBucket(routing_table_[bucket_index + 1], Head(nodes)) = 0

(* The nodes of a table, as a set.                                         *)
NodeSet(table) == { GatherNodes(table)[i] : i \in 1..Len(GatherNodes(table)) }

(* C22: when a node n that is not in its bucket is inserted into a full    *)
(* bucket and the head answers the ping, the head moves to the tail, the   *)
(* other entries keep their order, n is added nowhere and the set of nodes *)
(* of the table is unchanged.                                              *)
C22_AnsweredPingKeepsHead ==
    [][ \A b \in 0..(Len(routing_table_) - 1) :
            (EvictionStep(b) /\ rpc'.rx = Pong)
                => ( /\ routing_table_' =
                            [routing_table_ EXCEPT ![b + 1] = Tail(@) \o <<Head(@)>>]
                     /\ Copies(routing_table_', Head(nodes)) = Copies(routing_table_, Head(nodes))
                     /\ NodeSet(routing_table_') = NodeSet(routing_table_) ) ]_vars

(* C22 witness: with local ID 0, bucket 0 held the nodes 2..16 when node   *)
(* 18 arrived; node 2 answered the ping and is now the tail, and node 18   *)
(* is not in the table.                                                    *)
C22_Witness ==
    /\ my_node_id_ = MkId(0, 0)
    /\ rpc.called /\ rpc.op = "ping" /\ rpc.rx = Pong /\ rpc.to = Nd(2, 6881)
    /\ routing_table_[1] = << Nd(4, 6881), Nd(6, 6881), Nd(8, 6881), Nd(10, 6881),
                              Nd(12, 6881), Nd(14, 6881), Nd(16, 6881), Nd(2, 6881) >>
    /\ Copies(routing_table_, Nd(18, 6881)) = 0
    /\ nodes = << Nd(3, 6881), Nd(4, 6882) >>

(* The socket outcomes of a ping on which no byte arrives: socket() or     *)
(* recvfrom() fails (the deadline passes), or the datagram is empty.       *)
NoAnswer == {NoSocket, RecvFail, Datagram(<<>>)}

(* Some node of the table before the step is not in the table after it.    *)
NodeLeaves == \E n \in NodeSet(routing_table_) : n \notin NodeSet(routing_table_')

(* C23: when a node n that is not in its bucket is inserted into a full    *)
(* bucket and the ping to the head fails, the head is removed from the     *)
(* bucket and n is in it; the bucket still has K entries and the other     *)
(* K - 1 entries are unchanged.  No other step makes a node leave the      *)
(* routing table.                                                          *)
C23_FailedPingEvictsHead ==
    [][ /\ \A b \in 0..(Len(routing_table_) - 1) :
               (EvictionStep(b) /\ rpc'.rx \in NoAnswer)
                   => ( /\ FindInBucket(routing_table_'[b + 1], routing_table_[b + 1][1]) = 0
                        /\ FindInBucket(routing_table_'[b + 1], Head(nodes)) # 0
                        /\ Len(routing_table_'[b + 1]) = K
                        /\ Tail(routing_table_'[b + 1]) = Tail(routing_table_[b + 1])
                        /\ \A i \in 1..Len(routing_table_) :
                               i # b + 1 => routing_table_'[i] = routing_table_[i] )
        /\ NodeLeaves
               => \E b \in 0..(Len(routing_table_) - 1) :
                      EvictionStep(b) /\ rpc'.rx \in NoAnswer ]_vars

(* C23 witness: with local ID 0, bucket 0 held the nodes 2..16 when node   *)
(* 18 arrived; the ping to node 2 timed out, node 18 has its place and     *)
(* node 2 is gone from the table.                                          *)
C23_Witness ==
    /\ my_node_id_ = MkId(0, 0)
    /\ rpc.called /\ rpc.op = "ping" /\ rpc.rx = RecvFail /\ rpc.to = Nd(2, 6881)
    /\ routing_table_[1] = << Nd(18, 6881), Nd(4, 6881), Nd(6, 6881), Nd(8, 6881),
                              Nd(10, 6881), Nd(12, 6881), Nd(14, 6881), Nd(16, 6881) >>
    /\ Copies(routing_table_, Nd(2, 6881)) = 0
    /\ nodes = << Nd(3, 6881), Nd(4, 6882) >>

(* C24: the head of a full bucket counts as responsive only if a decodable *)
(* reply of class r arrives before the deadline; on a timeout, an          *)
(* undecodable datagram or a reply of class e the head is replaced by the  *)
(* new node.                                                               *)
C24_OnlyPongKeepsHead ==
    [][ \A b \in 0..(Len(routing_table_) - 1) :
            (EvictionStep(b) /\ rpc'.rx # Pong)
                => routing_table_'[b + 1] = [routing_table_[b + 1] EXCEPT ![1] = Head(nodes)] ]_vars

(* The node an insertion step has seen last: the head of the bucket when   *)
(* it answered the eviction ping, else the node passed to                  *)
(* add_to_routing_table.                                                   *)
SeenBy(bucket_index) ==
    IF EvictionStep(bucket_index) /\ rpc'.alive
    THEN routing_table_[bucket_index + 1][1]
    ELSE Head(nodes)

(* C25: every bucket is ordered by the time its entries were last seen     *)
(* (inserted, re-inserted, or answered an eviction ping), the most         *)
(* recently seen at the tail: after each call of add_to_routing_table the  *)
(* node seen in it is the tail of its bucket.                              *)
C25_BucketOrderedByLastSeen ==
    [][ InsertStep =>
            \A b \in BucketIndexes(xor_distance(my_node_id_, Head(nodes).id),
                                   Len(routing_table_)) :
                LET after == routing_table_'[b + 1]
                IN  /\ after # <<>>
                    /\ after[Len(after)] = SeenBy(b) ]_vars

(* C26: after any sequence of inserts and evictions no bucket holds two    *)
(* equal entries (same ID, IP and port).                                   *)
C26_NoEqualEntriesInBucket ==
    \A i \in 1..Len(routing_table_) :
        \A j, k \in 1..Len(routing_table_[i]) :
            j # k => routing_table_[i][j] # routing_table_[i][k]

(* C26 witness: with local ID 0 the first seed named the nodes 2 and 4 and *)
(* the second seed named node 2 again: it was found in bucket 0 and moved  *)
(* to the back, not stored twice.                                          *)
C26_Witness ==
    /\ my_node_id_ = MkId(0, 0)
    /\ seed_idx = 3
    /\ rpc.called /\ rpc.op = "find_node" /\ rpc.nodes = << Nd(2, 6881) >>
    /\ nodes = <<>>
    /\ routing_table_ = << << Nd(4, 6881), Nd(2, 6881) >> >>

(* Bit i of a distance counted from the most-significant end: bit 7 of     *)
(* byte 0 first, then bit 6, and so on.                                    *)
BitFromTop(distance, i) == (distance[(i \div 8) + 1] \div (2 ^ (7 - (i % 8)))) % 2 = 1

(* The number of consecutive 1-bits of a distance from the most-           *)
(* significant end, counted up to limit.                                   *)
RECURSIVE LeadingOnes(_, _, _)
LeadingOnes(distance, i, limit) ==
    IF i < limit /\ BitFromTop(distance, i) THEN LeadingOnes(distance, i + 1, limit) ELSE i

(* C27: the bucket chosen for a node is the number of consecutive 1-bits   *)
(* of my_id XOR node.id counted from the most-significant end, stopping at *)
(* the first 0-bit or at the current number of buckets, in which case one  *)
(* bucket is appended: add_to_routing_table changes that bucket only.      *)
C27_BucketIndexCountsLeadingOnes ==
    [][ InsertStep =>
            LET b == LeadingOnes(xor_distance(my_node_id_, Head(nodes).id), 0,
                                 Len(routing_table_))
            IN  /\ Len(routing_table_') =
                       IF b = Len(routing_table_) THEN b + 1 ELSE Len(routing_table_)
                /\ \A i \in 1..Len(routing_table_) :
                       i # b + 1 => routing_table_'[i] = routing_table_[i] ]_vars

(***************************************************************************)
(* Frame conditions.                                                       *)
(***************************************************************************)

(* C28: the routing table changes only inside bootstrap(): handling an     *)
(* inbound datagram in the serve loop, add_bootstrap_node, findPeers and a *)
(* direct send_find_node_request leave it unchanged, and no entry with the *)
(* placeholder ID of a seed appears when the seed is added.                *)
C28_TableChangesOnlyInBootstrap ==
    [][ /\ routing_table_' # routing_table_ => (pc = "bootstrap" /\ InsertStep)
        /\ bootstrap_nodes_' # bootstrap_nodes_ =>
               NodeSet(routing_table_') = NodeSet(routing_table_) ]_vars

(* C28 witness: after bootstrap() stored three nodes a second seed was     *)
(* added, findPeers returned nodes of both seeds, and the serve loop has   *)
(* handled an announce_peer; the table still holds the three nodes.        *)
C28_Witness ==
    /\ pc = "handled"
    /\ IsQuery(recv.message, S_announce_peer)
    /\ DOMAIN peer_store_ # {}
    /\ Len(bootstrap_nodes_) = 2
    /\ rpc.called /\ rpc.op = "findPeers" /\ rpc.returned
    /\ rpc.nodes = << NdLow(1), NdLow(2), NdLow(1), NdLow(2) >>
    /\ NodeSet(routing_table_) = { NdLow(1), NdLow(2), NdLow(3) }

(* The list of a key of the peer store, empty for a key it does not have.  *)
PeersOf(store, h) == IF h \in DOMAIN store THEN store[h] ELSE <<>>

(* The store `after` is the store `before` with one endpoint appended to   *)
(* the list of one key.                                                    *)
OneAppended(before, after) ==
    \E h \in DOMAIN after :
        /\ DOMAIN after = DOMAIN before \cup {h}
        /\ Len(after[h]) = Len(PeersOf(before, h)) + 1
        /\ SubSeq(after[h], 1, Len(after[h]) - 1) = PeersOf(before, h)
        /\ \A g \in DOMAIN before \ {h} : after[g] = before[g]

(* C29: the peer store changes only while an announce_peer is handled, and *)
(* each change appends one endpoint to the list of one key: no key and no  *)
(* list entry is removed or reordered, and handling ping, find_node and    *)
(* get_peers (also for an unknown infohash) leaves the store unchanged.    *)
C29_PeerStoreOnlyGrows ==
    [][ peer_store_' # peer_store_ =>
            /\ pc = "run" /\ pc' = "handled"
            /\ IsQuery(recv'.message, S_announce_peer)
            /\ OneAppended(peer_store_, peer_store_') ]_vars

(* C29 witness: two announcements for H1 are stored in the order they      *)
(* came, and the get_peers query for the unknown infohash H2 just handled  *)
(* was answered without adding a key.                                      *)
C29_Witness ==
    /\ pc = "handled"
    /\ IsQuery(recv.message, S_get_peers)
    /\ recv.message.v.d[S_a].d[S_info_hash].s = H2
    /\ sent # <<>>
    /\ DOMAIN peer_store_ = {H1}
    /\ Len(peer_store_[H1]) = 2
    /\ peer_store_[H1][1].port # peer_store_[H1][2].port

(* C30: after any sequence of inbound datagrams every key of the peer      *)
(* store is a 20-byte string: an announce_peer whose info_hash is not      *)
(* exactly 20 bytes long creates no key.                                   *)
C30_StoreKeysAreTwentyBytes ==
    \A h \in DOMAIN peer_store_ : Len(h) = NODE_ID_SIZE

(***************************************************************************)
(* The serve loop on messages that are no query it knows.                  *)
(***************************************************************************)

(* The four query types run() dispatches.                                  *)
KnownQueries == {S_ping, S_find_node, S_get_peers, S_announce_peer}

(* msg decodes to a dictionary whose "y" is a string other than "q", or    *)
(* whose "y" is "q" and whose "q" is a string that names no known query.   *)
NotServed(msg) ==
    /\ msg.ok
    /\ HasStr(msg.v, S_y)
    /\ \/ msg.v.d[S_y].s # S_q
       \/ HasStr(msg.v, S_q) /\ msg.v.d[S_q].s \notin KnownQueries

(* This step is one iteration of the loop of run() on a datagram.          *)
ServeStep == pc = "run" /\ pc' = "handled"

(* C31: a datagram whose "y" is "r", "e" or any value other than "q", or a *)
(* query whose "q" is none of ping, find_node, get_peers, announce_peer,   *)
(* produces no reply and changes neither the routing table nor the peer    *)
(* store.                                                                  *)
C31_OtherMessagesIgnored ==
    [][ (ServeStep /\ recv' # NoDatagram /\ NotServed(recv'.message))
            => ( /\ sent' = <<>>
                 /\ routing_table_' = routing_table_
                 /\ peer_store_' = peer_store_ ) ]_vars

(* C31 witness: an engine with nodes in its table and a peer in its store  *)
(* has just handled an error message and sent nothing.                     *)
C31_Witness ==
    /\ pc = "handled"
    /\ recv # NoDatagram
    /\ recv.data = Received(ErrorReply(TID))
    /\ NotServed(recv.message)
    /\ recv.message.v.d[S_y].s = S_e
    /\ sent = <<>>
    /\ DOMAIN peer_store_ = {H1}
    /\ Len(GatherNodes(routing_table_)) = 3

(* A query of one of the four kinds with everything its handler reads: a   *)
(* string "t", a dictionary "a" and, for find_node, a 20-byte "target",    *)
(* for get_peers and announce_peer a 20-byte "info_hash".                  *)
WellFormedQuery(msg) ==
    /\ \E q \in KnownQueries : IsQuery(msg, q)
    /\ HasStr(msg.v, S_t)
    /\ HasDict(msg.v, S_a)
    /\ HasStr(msg.v.d[S_a], S_id)
    /\ IsQuery(msg, S_find_node)
           => /\ HasStr(msg.v.d[S_a], S_target)
              /\ Len(msg.v.d[S_a].d[S_target].s) = NODE_ID_SIZE
    /\ (IsQuery(msg, S_get_peers) \/ IsQuery(msg, S_announce_peer))
           => /\ HasStr(msg.v.d[S_a], S_info_hash)
              /\ Len(msg.v.d[S_a].d[S_info_hash].s) = NODE_ID_SIZE

(* C32: each well-formed inbound ping, find_node, get_peers or             *)
(* announce_peer query causes exactly one reply datagram, and no inbound   *)
(* datagram of any kind causes more than one datagram to be sent.          *)
C32_OneReplyPerQuery ==
    [][ ServeStep
            => ( /\ Len(sent') <= 1
                 /\ (recv' # NoDatagram /\ WellFormedQuery(recv'.message))
                        => /\ Len(sent') = 1
                           /\ sent'[1].ip = recv'.ip
                           /\ sent'[1].port = recv'.port ) ]_vars

(* C32 witness: a well-formed get_peers query for a stored infohash has    *)
(* been handled and exactly one datagram went back to its sender.          *)
C32_Witness ==
    /\ pc = "handled"
    /\ recv # NoDatagram
    /\ WellFormedQuery(recv.message)
    /\ IsQuery(recv.message, S_get_peers)
    /\ recv.message.v.d[S_a].d[S_info_hash].s \in DOMAIN peer_store_
    /\ Len(sent) = 1
    /\ sent[1].ip = recv.ip

(* An outbound call was made and has not returned.                         *)
CallOutstanding == rpc.called /\ ~rpc.returned

(* C33: every outbound find_node and ping call eventually returns, with a  *)
(* result or with failure, whatever the remote sends or does not send;     *)
(* hence bootstrap(), with the eviction pings it triggers, terminates for  *)
(* every finite seed list.                                                 *)
C33_OutboundCallsReturn ==
    /\ CallOutstanding ~> ~CallOutstanding
    /\ (pc = "bootstrap") ~> (pc = "done")

(* The "t" of the datagram the last outbound call received; the empty      *)
(* string when the datagram has none.                                      *)
ReplyTid ==
    IF parse(ReplyBytes).ok /\ HasStr(parse(ReplyBytes).v, S_t)
    THEN parse(ReplyBytes).v.d[S_t].s
    ELSE <<>>

(* C34: an outbound query accepts a datagram as its reply only if the      *)
(* datagram's "t" equals the transaction ID sent in the query: a datagram  *)
(* with another "t" yields no nodes for find_node and does not count as a  *)
(* ping answer.                                                            *)
C34_ReplyMatchesTransactionId ==
    (rpc.called /\ rpc.rx.kind = "datagram") =>
        /\ (rpc.op = "find_node" /\ rpc.nodes # <<>>) => ReplyTid = S_aa
        /\ (rpc.op = "ping" /\ rpc.alive) => ReplyTid = S_pp

(* Inputs with a byte-string length that is no non-negative decimal        *)
(* number: `d-2:abe` (a key of length -2) and `3x:abc` (a letter between   *)
(* the digits and the colon).                                              *)
BadLengthInputs ==
    { <<100, 45, 50, 58, 97, 98, 101>>,
      <<51, 120, 58, 97, 98, 99>> }

(* C35: every byte-string length the decoder accepts, for a value or for   *)
(* a dictionary key, is a non-negative decimal number: parse raises an     *)
(* error for a dictionary key written with a negative length and for a     *)
(* length followed by non-digit characters before the colon.               *)
C35_BadLengthRejected ==
    ParsedInput /\ codec[1].in \in BadLengthInputs => ~codec[1].out.ok

(* C36: for every finite byte string parse terminates, returning a value   *)
(* or raising an error: no element it parses moves the read position back  *)
(* to a position already parsed.                                           *)
C36_ParseTerminates ==
    ParsedInput => ~codec[1].out.diverges

(***************************************************************************)
(* Growth of the routing table: bootstrap() called again and again, with   *)
(* seeds that answer with nodes chosen for the table the engine has.       *)
(***************************************************************************)

(* Number of nodes a seed puts in one find_node reply.                     *)
GrowBatch == 16

(* The distance whose bits 0 .. j-1, in the order of the scan of           *)
(* add_to_routing_table, are set and whose other bits are clear.           *)
OnesDistance(j) ==
    [i \in 1..NODE_ID_SIZE |->
        IF 8 * i <= j THEN 255
        ELSE IF 8 * (i - 1) >= j THEN 0
        ELSE 2 ^ (j - 8 * (i - 1)) - 1]

(* The node at distance OnesDistance(j) from my_id.                        *)
GrowNode(my_id, j) ==
    MkNode(xor_distance(my_id, OnesDistance(j)), inet_ntop(<<10, 0, 2, j>>), 6881)

(* The nodes a seed names to an engine with `size` buckets: the scan stops *)
(* at the number of buckets for the first, which appends a bucket, and so  *)
(* on for the next ones, up to the node whose distance has every bit set.  *)
GrowList(my_id, size) ==
    IF size > 8 * NODE_ID_SIZE THEN << GrowNode(my_id, 8 * NODE_ID_SIZE) >>
    ELSE [i \in 1..Min(GrowBatch, 8 * NODE_ID_SIZE + 1 - size) |->
              GrowNode(my_id, size + i - 1)]

(* The table sizes at which such a reply arrives.                          *)
GrowSizes ==
    { size \in 1..(8 * NODE_ID_SIZE + 1) :
          (size - 1) % GrowBatch = 0 \/ size = 8 * NODE_ID_SIZE + 1 }

GrowNet ==
    { [size |-> size, rx |-> Datagram(FindNodeReply(GrowList(my_id, size))), my |-> my_id] :
          my_id \in MyIds, size \in GrowSizes }

GrowOutcomes ==
    { [size |-> g.size, rx |-> g.rx, res |-> FindNodeResult(g.rx), my |-> g.my] :
          g \in GrowNet }

(* The seed answers the find_node query of bootstrap() with the nodes      *)
(* chosen for the local ID and the present number of buckets.              *)
BootstrapGrow ==
    \E o \in GrowOutcomes :
        /\ o.my = my_node_id_
        /\ o.size = Len(routing_table_)
        /\ BootstrapFindNode(o.rx, o.res)

(* The seed does not answer.                                               *)
BootstrapTimeout == BootstrapFindNode(RecvFail, FindNodeResult(RecvFail))

(* The host calls bootstrap() once more.                                   *)
BootstrapCallAgain ==
    /\ pc = "done"
    /\ pc' = "bootstrap"
    /\ seed_idx' = 1
    /\ nodes' = <<>>
    /\ UNCHANGED <<my_node_id_, routing_table_, bootstrap_nodes_, peer_store_,
                   recv, sent, caught, acked, closest,
                   rpc, open_sockets, sock_, codec>>

NextGrow ==
    \/ \E a \in SeedAddrs : AddBootstrapNode(a.ip, a.port, MkId(170, 85))
    \/ BootstrapCall
    \/ BootstrapCallAgain
    \/ BootstrapGrow
    \/ BootstrapTimeout
    \/ BootstrapInsertAny(PingNet)
    \/ BootstrapReturn

SpecGrow == Init /\ [][NextGrow]_vars

(* C37: after any sequence of inserts the routing table has at least 1 and *)
(* at most 160 buckets, one per bit of a node ID.                          *)
C37_BucketCountBounded ==
    /\ Len(routing_table_) >= 1
    /\ Len(routing_table_) <= 8 * NODE_ID_SIZE

(* C38: the routing table never contains an entry whose ID equals the      *)
(* local node ID: a node with the local ID returned in a find_node reply   *)
(* during bootstrap is not inserted.                                       *)
C38_LocalIdNotInTable ==
    \A b \in 1..Len(routing_table_) :
        \A i \in 1..Len(routing_table_[b]) : routing_table_[b][i].id # my_node_id_

====
